---- MODULE Spec2Model ----
(***************************************************************************)
(* Control-loop scheduler (Run / Epoch / Trial / Cycle) of the SIR         *)
(* simulation, its Train/Test mode switch, the NZero early-stop predicate, *)
(* and the reward / entropy learning-rate controller.                      *)
(*                                                                         *)
(* Activations and entropies are fixed-point integers: activations in      *)
(* hundredths, the entropy multiplier in thousandths (0.25 = 250,          *)
(* 1.0 = 1000, 4.0 = 4000).                                                *)
(***************************************************************************)
EXTENDS Integers, Sequences, FiniteSets, TLC

\* ------------------------------------------------------------------ bounds
MaxRuns == 2
MaxEpochs == 3
MaxTrials == 2
NUnits == 3
MaxAct == 2
MaxExtra == 2
MaxStops == 1
MaxAttempts == 2
MaxRecalls == 10
MaxCycles == 11
MaxNrnRuns == 2
MaxRows == 2
MaxSamp == 1
MaxSteps == 1

\* ------------------------------------------------------- program constants
CycleMax == 100
PlusStart == 75
TestEpochs == 1
DefaultNZero == 2
NStim == 4
EntOff == 1000
EntMin == 250
EntMax == 4000
EntNorm == 277
LowAct == 2

Modes == {"Train", "Test"}

NZeroVals == {0, 1}
TestIntervalVals == {0, 1, 2}

\* The scenario NRuns=1, NEpochs=3, NTrials=4, NZero=2, TestInterval=-1.
Scenario ==
    [NRuns |-> 1, NEpochs |-> 3, NTrials |-> 4, NZero |-> 2, TestInterval |-> -1]

\* Config struct: the values a config file can give it.
Configs ==
    [NRuns : 1..MaxRuns, NEpochs : 1..MaxEpochs, NTrials : 1..MaxTrials,
     NZero : NZeroVals, TestInterval : TestIntervalVals] \cup {Scenario}

\* The Train stack built with the Trial scale added before the Epoch scale.
OrderTrialOverEpoch(m) ==
    IF m = "Train" THEN <<"Run", "Trial", "Epoch", "Cycle">>
    ELSE <<"Epoch", "Trial", "Cycle">>

\* looper.Stack.Order: the time scales of a stack, coarsest first.
Order(m) ==
    IF m = "Train" THEN <<"Run", "Epoch", "Trial", "Cycle">>
    ELSE <<"Epoch", "Trial", "Cycle">>

TimeSet(m) == {Order(m)[i] : i \in 1..Len(Order(m))}

VARIABLES
    cfg,          \* ss.Config
    Mode,         \* ss.Loops.Mode
    loops,        \* ss.Loops.Stacks[m].Loops[t].Counter: [Cur, Max]
    lastStarted,  \* looper lastStartedCounter, -1 when absent
    stk,          \* activations of runLevel, outermost first
    job,          \* what the top-level caller asked for
    stats,        \* ss.Stats: NZero
    trnErr,       \* a Train trial of the current epoch had TrlErr = 1
    hist,         \* observations of the run so far
    flags,        \* ss.ModLearnRate, ss.EntropyMeasureType
    avgM,         \* AvgM of the units of the Hidden and GPiThal layers
    ent,          \* what the last CalcEntropy call returned, -1 before any
    envs,         \* ss.Envs: the Train and Test SIREnv
    net,          \* what ApplyReward writes in the network
    lstats,       \* the learning-rate stats
    rhist,        \* observations of the last ApplyReward call
    reg,          \* the callback registries ConfigLoops fills, and its progress
    sc,           \* the stop flag (GUI.StopNow), the halt in progress, and
                  \* what was observed when it was requested and detected
    nest,         \* runs asked for while a nested Test run executes
    nrn,          \* the single-neuron sim: RunCycles and its Stop
    fix,          \* a fixed trial schedule with a mocked network, and the
                  \* rewards written on its Recall trials
    prm,          \* the priming sim: its pattern tables, environments and
                  \* Trial loops
    ord,          \* the callbacks fired at the boundary in progress
    ctx,          \* ss.Context: Mode
    gui           \* ss.ViewUpdate: the view attached, its text

schedVars == <<cfg, Mode, loops, lastStarted, stk, job, stats, trnErr, hist>>
entVars == <<flags, avgM, ent>>
rewVars == <<envs, net, lstats, rhist>>
obsVars == <<ord, ctx, gui>>
auxVars == <<reg, sc, nest, nrn, fix, prm, ord, ctx, gui>>
vars == <<cfg, Mode, loops, lastStarted, stk, job, stats, trnErr, hist,
          flags, avgM, ent, envs, net, lstats, rhist, reg, sc, nest, nrn, fix, prm,
          ord, ctx, gui>>

\* --------------------------------------------------------------- looper

\* ConfigLoops with the Train Trial maximum taken from NEpochs.
ConfigLoopsTrialsFromEpochs(c) ==
    [m \in Modes |->
        [t \in TimeSet(m) |->
            [Cur |-> 0,
             Max |-> IF m = "Train"
                     THEN CASE t = "Run" -> c.NRuns
                            [] t = "Epoch" -> c.NEpochs
                            [] t = "Trial" -> c.NEpochs
                            [] OTHER -> CycleMax
                     ELSE CASE t = "Epoch" -> TestEpochs
                            [] t = "Trial" -> c.NTrials
                            [] OTHER -> CycleMax]]]

\* ConfigLoops: the counters of the two stacks, all at 0, with their maxima.
ConfigLoops(c) ==
    [m \in Modes |->
        [t \in TimeSet(m) |->
            [Cur |-> 0,
             Max |-> IF m = "Train"
                     THEN CASE t = "Run" -> c.NRuns
                            [] t = "Epoch" -> c.NEpochs
                            [] t = "Trial" -> c.NTrials
                            [] OTHER -> CycleMax
                     ELSE CASE t = "Epoch" -> TestEpochs
                            [] t = "Trial" -> c.NTrials
                            [] OTHER -> CycleMax]]]

\* ApplyParams: the Train Run and Epoch maxima follow the Config.
ApplyParams(L, c) ==
    [L EXCEPT !["Train"]["Run"].Max = c.NRuns,
              !["Train"]["Epoch"].Max = c.NEpochs]

\* looper.Stacks.ResetCountersByMode: the counters of one stack go to 0.
ResetCountersByMode(L, mode) ==
    [m \in Modes |->
        [t \in TimeSet(m) |->
            IF m = mode THEN [L[m][t] EXCEPT !.Cur = 0] ELSE L[m][t]]]

\* looper.Stacks.ResetCounters: the counters of every stack go to 0.
ResetCounters(L) ==
    [m \in Modes |-> [t \in TimeSet(m) |-> [L[m][t] EXCEPT !.Cur = 0]]]

\* The lastStartedCounter entries ResetCountersByMode deletes.
ForgetStartedByMode(ls, mode) ==
    [m \in Modes |-> [t \in TimeSet(m) |-> IF m = mode THEN -1 ELSE ls[m][t]]]

NoneStarted == [m \in Modes |-> [t \in TimeSet(m) |-> -1]]

\* for ctr.Cur < ctr.Max || ctr.Max <= 0
LoopCond(c) == c.Cur < c.Max \/ c.Max <= 0

\* ------------------------------------------------------- Sim callbacks

\* NewRun without InitStats.
NewRunKeepsStats(st) == st

\* The callback LooperSimCycleAndLearn puts at the head of every loop's
\* OnStart: the Context mode becomes the mode of the loop's stack.
SetCtxMode(c, m) == [c EXCEPT !.Mode = m]

\* ctx.AlphaCycStart at the start of a trial, ctx.CycleInc at every cycle.
AlphaCycStart(c) == [c EXCEPT !.Cycle = 0]
CycleInc(c) == [c EXCEPT !.Cycle = @ + 1]

\* ApplyInputs stepping the Test environment whatever the Context mode is.
ApplyInputsTestEnv(c, by) ==
    [c EXCEPT !.by = by, !.stepped = "Test", !.steps["Test"] = @ + 1]

\* ApplyInputs, called by the Trial OnStart of the stack by: the environment
\* of the Context mode steps.
ApplyInputs(c, by) ==
    [c EXCEPT !.by = by, !.stepped = c.Mode, !.steps[c.Mode] = @ + 1]

\* NewRun leaving the environments as they are.
NewRunCtxKeepsEnvs(c) == [c EXCEPT !.Mode = "Train", !.Cycle = 0]

\* NewRun on the Context and the environments: Init(0) of both
\* environments, ctx.Reset(), ctx.Mode = Train.
NewRunCtx(c) ==
    [c EXCEPT !.Mode = "Train", !.Cycle = 0, !.steps = [m \in Modes |-> 0]]

\* TestAll, first statement: Init(0) of the Test environment.
TestAllEnv(c) == [c EXCEPT !.steps["Test"] = 0]

\* Log(mode, time), first statement: ctx.Mode = mode.
LogMode(c, mode) == [c EXCEPT !.Mode = mode]

\* The OnStart callbacks of the loop t of the stack m on the Context and the
\* environments, in the order ConfigLoops registers them.
OnStartCtx(c, m, t) ==
    LET c1 == SetCtxMode(c, m)
    IN  CASE t = "Trial" -> ApplyInputs(AlphaCycStart(c1), m)
          [] m = "Train" /\ t = "Run" -> NewRunCtx(c1)
          [] OTHER -> c1

\* StatCounters on the counter stats S: the counters of the stack of the
\* Context mode, the Train Epoch counter, the Context cycle.
StatCounters(S, c, L) ==
    [t \in DOMAIN S |->
        CASE t = "Cycle" -> c.Cycle
          [] t = "Epoch" -> L["Train"]["Epoch"].Cur
          [] t \in TimeSet(c.Mode) -> L[c.Mode][t].Cur
          [] OTHER -> S[t]]

\* NetViewCounters: nothing without a view; with one, StatCounters and the
\* text printed from the stats.
NetViewCounters(g, tm, c, L) ==
    IF ~g.View THEN g
    ELSE LET S == StatCounters(g.Stats, c, L)
         IN  [g EXCEPT !.Stats = S,
                       !.Text = <<S["Run"], S["Epoch"], S["Trial"], S["Cycle"]>>]

\* RunDone adding to Expt at the end of every Run.
RunDoneEveryRun(S, c) == S["Run"] >= 0

\* The RunDone callback of the Train Run OnEnd: whether it adds 1 to the
\* Expt stat, S the counter stats of the moment.
RunDone(S, c) == S["Run"] >= c.NRuns - 1

\* StatCounters, and the NetViewCounters callback, in both executions.
GuiStatCounters(g, c, L) ==
    [v \in DOMAIN g |-> [g[v] EXCEPT !.Stats = StatCounters(@, c, L)]]
GuiNetView(g, tm, c, L) == [v \in DOMAIN g |-> NetViewCounters(g[v], tm, c, L)]

\* InitStats as called by NewRun: InitErrStats puts NZero back to 0.
NewRun(st) == [st EXCEPT !.NZero = 0]

\* The Train Epoch log row: NZero counts consecutive zero-error epochs.
LogEpoch(st, err) == [st EXCEPT !.NZero = IF err THEN 0 ELSE @ + 1]

\* NZeroStop comparing with > instead of >=.
NZeroStopStrict(st, c) ==
    LET stopNz == IF c.NZero <= 0 THEN DefaultNZero ELSE c.NZero
    IN  [stop |-> st.NZero > stopNz, stats |-> st]

\* NZeroStop stopping one epoch early.
NZeroStopEarly(st, c) ==
    LET stopNz == IF c.NZero <= 0 THEN DefaultNZero ELSE c.NZero
    IN  [stop |-> st.NZero + 1 >= stopNz, stats |-> st]

\* The NZeroStop predicate: its verdict, and the stats it leaves behind.
NZeroStop(st, c) ==
    LET stopNz == IF c.NZero <= 0 THEN DefaultNZero ELSE c.NZero
    IN  [stop |-> st.NZero >= stopNz, stats |-> st]

\* NZeroStop registered on the Train Trial loop.
IsDoneAtTrial(m, t) == m = "Train" /\ t = "Trial"

\* The loop the NZeroStop predicate is registered on.
IsDoneAt(m, t) == m = "Train" /\ t = "Epoch"

\* TestAtInterval without the +1.
TestAtIntervalNoPlusOne(c, cur) ==
    c.TestInterval > 0 /\ cur % c.TestInterval = 0

\* The condition of the TestAtInterval callback, cur the Train Epoch counter.
TestAtInterval(c, cur) ==
    c.TestInterval > 0 /\ (cur + 1) % c.TestInterval = 0

\* TestAll resetting the counters of every stack.
TestAllResetEvery(L) == ResetCounters(L)

\* TestAll running the Test stack from the counters as they are.
TestAllRunOnly(L) == L

\* TestAll, first half: ResetAndRun(Test) resets the Test stack's counters.
TestAllReset(L) == ResetCountersByMode(L, "Test")

\* TestAll without its last statement: the mode stays what Run(Test) made it.
TestAllLeavesMode(prior) == "Test"

\* TestAll, last statement: the mode Loops.Mode has on return.
TestAllExitMode(prior) == "Train"

\* ------------------------------------------- reward and entropy

\* Defaults: no learning-rate modulation, the GPiThal entropy measure.
Defaults == [ModLearnRate |-> FALSE, EntropyMeasureType |-> FALSE]

Units == 1..NUnits

\* AvgM values of a Hidden unit, in hundredths: 0, 0.01, 0.02, 3.0, 50.0.
HidVals == {0, 1, 2, 300, 5000}
\* AvgM values of a GPiThal unit, in hundredths.
GpiVals == 0..MaxAct

RECURSIVE SumTo(_, _)
SumTo(v, n) == IF n = 0 THEN 0 ELSE v[n] + SumTo(v, n - 1)
Sum(v) == SumTo(v, NUnits)

\* maxAct as the loop computes it: the largest of 0 and the values.
MaxOfVals(v) ==
    LET S == {v[u] : u \in Units} \cup {0}
    IN  CHOOSE x \in S : \A y \in S : y <= x

\* math32.Log of an integer n >= 1, in thousandths.
LnMilli ==
    <<0, 693, 1099, 1386, 1609, 1792, 1946, 2079, 2197, 2303,
      2398, 2485, 2565, 2639, 2708, 2773, 2833, 2890, 2944, 2996>>

\* -sum prob * log(prob) over the units with prob > 0, in thousandths,
\* prob = val / totalActivation; 0 when totalActivation is not positive.
RECURSIVE ShannonTo(_, _, _)
ShannonTo(v, total, n) ==
    IF n = 0 THEN 0
    ELSE LET prob == (v[n] * 1000) \div total
             term == IF prob > 0
                     THEN (prob * (LnMilli[total] - LnMilli[v[n]])) \div 1000
                     ELSE 0
         IN  term + ShannonTo(v, total, n - 1)

Shannon(v) == IF Sum(v) > 0 THEN ShannonTo(v, Sum(v), NUnits) ELSE 0

\* CalcEntropy without the test of the largest Hidden activation.
CalcEntropyNoLowAct(fl, a) ==
    IF ~fl.ModLearnRate THEN EntOff
    ELSE IF fl.EntropyMeasureType
    THEN LET e == Sum(a["Hidden"])
         IN  IF e > EntMax THEN EntMax
             ELSE IF e < EntMin THEN EntMin ELSE e
    ELSE LET e == (Shannon(a["GPiThal"]) * 100) \div EntNorm
         IN  IF e > EntMax THEN EntMax
             ELSE IF e < EntMin THEN EntMin ELSE e

\* CalcEntropy without the lower clamp.
CalcEntropyNoFloor(fl, a) ==
    IF ~fl.ModLearnRate THEN EntOff
    ELSE IF fl.EntropyMeasureType
    THEN LET e == Sum(a["Hidden"])
         IN  IF MaxOfVals(a["Hidden"]) < LowAct \/ e > EntMax THEN EntMax ELSE e
    ELSE LET e == (Shannon(a["GPiThal"]) * 100) \div EntNorm
         IN  IF e > EntMax THEN EntMax ELSE e

\* CalcEntropy without the ModLearnRate test.
CalcEntropyAlways(fl, a) ==
    IF fl.EntropyMeasureType
    THEN LET e == Sum(a["Hidden"])
         IN  IF MaxOfVals(a["Hidden"]) < LowAct \/ e > EntMax THEN EntMax
             ELSE IF e < EntMin THEN EntMin ELSE e
    ELSE LET e == (Shannon(a["GPiThal"]) * 100) \div EntNorm
         IN  IF e > EntMax THEN EntMax
             ELSE IF e < EntMin THEN EntMin ELSE e

\* CalcEntropy, in thousandths: 1.0 when ModLearnRate is off; else the sum
\* of the Hidden AvgM / 10 or the GPiThal Shannon entropy / 2.77, clamped.
\* (A sum of hundredths is that sum / 10 in thousandths.)
CalcEntropy(fl, a) ==
    IF ~fl.ModLearnRate THEN EntOff
    ELSE IF fl.EntropyMeasureType
    THEN LET e == Sum(a["Hidden"])
         IN  IF MaxOfVals(a["Hidden"]) < LowAct \/ e > EntMax THEN EntMax
             ELSE IF e < EntMin THEN EntMin ELSE e
    ELSE LET e == (Shannon(a["GPiThal"]) * 100) \div EntNorm
         IN  IF e > EntMax THEN EntMax
             ELSE IF e < EntMin THEN EntMin ELSE e

Actions == {"Store1", "Store2", "Ignore", "Recall1", "Recall2"}
Recalls == {"Recall1", "Recall2"}
LrateLayers == {"MatrixGo", "MatrixNoGo", "RWPred"}
\* The layers of the network whose learning rate the model follows.
NetLayers == LrateLayers \cup {"Hidden", "Output"}

\* SIREnv after Init: both slots empty, no reward.
EnvInit == [act |-> "Store1", stim |-> 0, maint1 |-> -1, maint2 |-> -1, rew |-> 0,
            first |-> TRUE]

\* The actions SIREnv.Step may draw: a Store first, a Recall only of a slot
\* that was stored into.
NextActions(e) ==
    IF e.first THEN {"Store1", "Store2"}
    ELSE {"Store1", "Store2", "Ignore"}
            \cup (IF e.maint1 >= 0 THEN {"Recall1"} ELSE {})
            \cup (IF e.maint2 >= 0 THEN {"Recall2"} ELSE {})

\* SIREnv.Step with the action a and the stimulus st drawn.
EnvStep(e, a, st) ==
    [e EXCEPT !.act = a, !.first = FALSE,
              !.stim = CASE a = "Recall1" -> e.maint1
                         [] a = "Recall2" -> e.maint2
                         [] OTHER -> st,
              !.maint1 = IF a = "Store1" THEN st ELSE @,
              !.maint2 = IF a = "Store2" THEN st ELSE @]

\* ConfigEnv: trn.RewVal = 1, and the same for tst.
RewVal == 1

\* ConfigEnv giving the reward value to wrong answers too.
NoRewValAsRewVal == RewVal

\* ConfigEnv: trn.NoRewVal = 0, and the same for tst.
NoRewVal == 0

\* SIREnv.SetReward: RewVal when the network's output is the stimulus the
\* trial expects, NoRewVal when it is not.
SetReward(e, netout) == [e EXCEPT !.rew = IF netout = e.stim THEN RewVal ELSE NoRewVal]

\* The network state ApplyReward touches: the external input of the Rew
\* layer and the learning-rate multiplier of each layer.
NetInit == [Rew |-> -1, lmult |-> [l \in NetLayers |-> EntOff]]

\* InitStats: the learning-rate stats.
InitStats == [MatrixGoLRate |-> 0, MatrixNoGoLRate |-> 0, RWPredLRate |-> 0]

\* The part of ApplyReward after the action test, without rwpred.LrateMult.
RewardBodySkipsRWPred(en, S, mxi, fl, a) ==
    LET e2 == SetReward(S.envs[en], mxi)
        mult == CalcEntropy(fl, a)
    IN  [envs |-> [S.envs EXCEPT ![en] = e2],
         net |-> [Rew |-> e2.rew,
                  lmult |-> [l \in DOMAIN S.net.lmult |->
                                IF l \in {"MatrixGo", "MatrixNoGo"} THEN mult
                                ELSE S.net.lmult[l]]],
         lstats |-> [MatrixGoLRate |-> mult, MatrixNoGoLRate |-> mult,
                     RWPredLRate |-> S.net.lmult["RWPred"]],
         ent |-> mult,
         calls |-> <<"SetReward", "Rew.ApplyExt", "MatrixGo.LrateMult",
                     "MatrixNoGo.LrateMult", "SetStats">>]

\* The part of ApplyReward after the action test.
RewardBody(en, S, mxi, fl, a) ==
    LET e2 == SetReward(S.envs[en], mxi)
        mult == CalcEntropy(fl, a)
    IN  [envs |-> [S.envs EXCEPT ![en] = e2],
         net |-> [Rew |-> e2.rew,
                  lmult |-> [l \in DOMAIN S.net.lmult |->
                                IF l \in LrateLayers THEN mult ELSE S.net.lmult[l]]],
         lstats |-> [MatrixGoLRate |-> mult, MatrixNoGoLRate |-> mult,
                     RWPredLRate |-> mult],
         ent |-> mult,
         calls |-> <<"SetReward", "Rew.ApplyExt", "MatrixGo.LrateMult",
                     "MatrixNoGo.LrateMult", "RWPred.LrateMult", "SetStats">>]

\* ApplyReward returning only on Ignore trials.
ApplyRewardOnStores(train, S, mxi, fl, a) ==
    LET en == IF train THEN "Train" ELSE "Test"
    IN  IF S.envs[en].act = "Ignore"
        THEN [envs |-> S.envs, net |-> S.net, lstats |-> S.lstats,
              ent |-> -1, calls |-> <<>>]
        ELSE RewardBody(en, S, mxi, fl, a)

\* ApplyReward(train) on the state S = [envs, net, lstats], with mxi the
\* Output layer's MaxIndex and a the AvgM activations: the state it leaves,
\* the multiplier it computed, and the calls it made, in order.
ApplyReward(train, S, mxi, fl, a) ==
    LET en == IF train THEN "Train" ELSE "Test"
    IN  IF S.envs[en].act # "Recall1" /\ S.envs[en].act # "Recall2"
        THEN [envs |-> S.envs, net |-> S.net, lstats |-> S.lstats,
              ent |-> -1, calls |-> <<>>]
        ELSE RewardBody(en, S, mxi, fl, a)

\* The trial schedules of a scenario and the mocked network: it answers the
\* stimulus held in slot 1, or anything.
FixedSchedule == <<"Store1", "Ignore", "Recall1">>
Schedules == {FixedSchedule, <<"Store2", "Store1", "Recall2", "Recall1">>}
Mocks == {"slot1", "any"}
NoSeen == [act |-> "none", mxi |-> -1, want |-> -1, rew |-> -1, ext |-> -1]
FixInit == [sched |-> FixedSchedule, mock |-> "slot1", pos |-> 0, due |-> FALSE,
            trace |-> <<>>, seen |-> NoSeen]

NoCall == [n |-> 0, act |-> "none", calls |-> <<>>, same |-> TRUE, ent |-> -1,
           stored |-> {}, first |-> "none"]

\* The slot a Store or Recall action is about, 0 for Ignore.
SlotOf(a) == CASE a \in {"Store1", "Recall1"} -> 1
               [] a \in {"Store2", "Recall2"} -> 2
               [] OTHER -> 0

\* NewRun leaving the environments as the last run left them.
NewRunKeepsEnvs(E) == E

\* NewRun: Envs.ByMode(Train).Init(0), Envs.ByMode(Test).Init(0).
NewRunEnvs(E) == [m \in Modes |-> EnvInit]

\* TestAll, first statement: Envs.ByMode(Test).Init(0).
TestAllEnvs(E) == [E EXCEPT !["Test"] = EnvInit]

\* -------------------------------------------------- callback registries

\* The registries of the two stacks: OnInit of a stack; OnStart, OnEnd and
\* IsDone of a loop; OnEvent of the Cycle event MinusPhase:End.
RegKeys ==
    {<<m, "Stack", "OnInit">> : m \in Modes}
    \cup UNION {{<<m, t, k>> : t \in TimeSet(m), k \in {"OnStart", "OnEnd", "IsDone"}} :
                   m \in Modes}
    \cup {<<m, "Cycle", "MinusPhase:End">> : m \in Modes}

AtTail == [kind |-> "tail", anchor |-> ""]
Before(x) == [kind |-> "before", anchor |-> x]
After(x) == [kind |-> "after", anchor |-> x]

FuncNames(fs) == {fs[i] : i \in 1..Len(fs)}
IndexOf(fs, x) == CHOOSE i \in 1..Len(fs) : fs[i] = x
InsertAt(fs, i, x) == SubSeq(fs, 1, i - 1) \o <<x>> \o SubSeq(fs, i, Len(fs))

\* RegisterCallback(registry, name, fn, position): the tail by default,
\* before / after a named callback otherwise; a name already there or an
\* anchor that is not there fails and leaves the registry as it was.
RegisterCallback(fs, name, pos) ==
    IF name \in FuncNames(fs)
    THEN [ok |-> FALSE, err |-> "duplicate", funcs |-> fs]
    ELSE IF pos.kind = "tail"
    THEN [ok |-> TRUE, err |-> "none", funcs |-> Append(fs, name)]
    ELSE IF pos.anchor \notin FuncNames(fs)
    THEN [ok |-> FALSE, err |-> "no anchor", funcs |-> fs]
    ELSE [ok |-> TRUE, err |-> "none",
          funcs |-> InsertAt(fs, IndexOf(fs, pos.anchor)
                                    + (IF pos.kind = "after" THEN 1 ELSE 0), name)]

Reg(m, t, k, name, pos) == [key |-> <<m, t, k>>, name |-> name, pos |-> pos]

\* LooperStdPhases: the phase event of the Cycle loop of every stack and the
\* callback of the same name the network driver puts in it.
StdPhasesRegs ==
    <<Reg("Train", "Cycle", "MinusPhase:End", "MinusPhase:End", AtTail),
      Reg("Test", "Cycle", "MinusPhase:End", "MinusPhase:End", AtTail)>>

\* AddOnEndToAll: the OnEnd registry of every loop of every stack.
StackOnEnd(m, name) ==
    [i \in 1..Len(Order(m)) |-> Reg(m, Order(m)[i], "OnEnd", name, AtTail)]
AddOnEndToAll(name) == StackOnEnd("Train", name) \o StackOnEnd("Test", name)

\* ConfigLoops naming the Run statistics callback "RunDone" a second time.
ConfigLoopsRegsRunDoneTwice ==
    <<Reg("Train", "Stack", "OnInit", "Init", AtTail),
      Reg("Train", "Trial", "OnStart", "ApplyInputs", AtTail),
      Reg("Test", "Trial", "OnStart", "ApplyInputs", AtTail),
      Reg("Train", "Run", "OnStart", "NewRun", AtTail),
      Reg("Train", "Run", "OnEnd", "RunDone", AtTail),
      Reg("Train", "Cycle", "MinusPhase:End", "ApplyReward", Before("MinusPhase:End")),
      Reg("Train", "Epoch", "IsDone", "NZeroStop", AtTail),
      Reg("Train", "Epoch", "OnStart", "TestAtInterval", AtTail),
      Reg("Test", "Epoch", "OnEnd", "LogTestErrors", AtTail)>>
    \o AddOnEndToAll("Log")
    \o <<Reg("Train", "Run", "OnEnd", "RunDone", AtTail),
         Reg("Train", "Stack", "OnInit", "GUI-Init", AtTail),
         Reg("Test", "Stack", "OnInit", "GUI-Init", AtTail)>>

\* ConfigLoops inserting ApplyReward before a callback "PlusPhase:Start" of
\* the MinusPhase:End event.
ConfigLoopsRegsOtherAnchor ==
    <<Reg("Train", "Stack", "OnInit", "Init", AtTail),
      Reg("Train", "Trial", "OnStart", "ApplyInputs", AtTail),
      Reg("Test", "Trial", "OnStart", "ApplyInputs", AtTail),
      Reg("Train", "Run", "OnStart", "NewRun", AtTail),
      Reg("Train", "Run", "OnEnd", "RunDone", AtTail),
      Reg("Train", "Cycle", "MinusPhase:End", "ApplyReward", Before("PlusPhase:Start")),
      Reg("Train", "Epoch", "IsDone", "NZeroStop", AtTail),
      Reg("Train", "Epoch", "OnStart", "TestAtInterval", AtTail),
      Reg("Test", "Epoch", "OnEnd", "LogTestErrors", AtTail)>>
    \o AddOnEndToAll("Log")
    \o <<Reg("Train", "Run", "OnEnd", "RunStats", AtTail),
         Reg("Train", "Stack", "OnInit", "GUI-Init", AtTail),
         Reg("Test", "Stack", "OnInit", "GUI-Init", AtTail)>>

\* ConfigLoops adding RunStats to the Train Run OnEnd before the Log callbacks.
ConfigLoopsRegsRunStatsFirst ==
    <<Reg("Train", "Stack", "OnInit", "Init", AtTail),
      Reg("Train", "Trial", "OnStart", "ApplyInputs", AtTail),
      Reg("Test", "Trial", "OnStart", "ApplyInputs", AtTail),
      Reg("Train", "Run", "OnStart", "NewRun", AtTail),
      Reg("Train", "Run", "OnEnd", "RunDone", AtTail),
      Reg("Train", "Cycle", "MinusPhase:End", "ApplyReward", Before("MinusPhase:End")),
      Reg("Train", "Epoch", "IsDone", "NZeroStop", AtTail),
      Reg("Train", "Epoch", "OnStart", "TestAtInterval", AtTail),
      Reg("Test", "Epoch", "OnEnd", "LogTestErrors", AtTail),
      Reg("Train", "Run", "OnEnd", "RunStats", AtTail)>>
    \o AddOnEndToAll("Log")
    \o <<Reg("Train", "Stack", "OnInit", "GUI-Init", AtTail),
         Reg("Test", "Stack", "OnInit", "GUI-Init", AtTail)>>

\* ConfigLoops inserting ApplyReward in the Cycle loop of the Test stack too.
ConfigLoopsRegsRewardInTest ==
    <<Reg("Train", "Stack", "OnInit", "Init", AtTail),
      Reg("Train", "Trial", "OnStart", "ApplyInputs", AtTail),
      Reg("Test", "Trial", "OnStart", "ApplyInputs", AtTail),
      Reg("Train", "Run", "OnStart", "NewRun", AtTail),
      Reg("Train", "Run", "OnEnd", "RunDone", AtTail),
      Reg("Train", "Cycle", "MinusPhase:End", "ApplyReward", Before("MinusPhase:End")),
      Reg("Test", "Cycle", "MinusPhase:End", "ApplyReward", Before("MinusPhase:End")),
      Reg("Train", "Epoch", "IsDone", "NZeroStop", AtTail),
      Reg("Train", "Epoch", "OnStart", "TestAtInterval", AtTail),
      Reg("Test", "Epoch", "OnEnd", "LogTestErrors", AtTail)>>
    \o AddOnEndToAll("Log")
    \o <<Reg("Train", "Run", "OnEnd", "RunStats", AtTail),
         Reg("Train", "Stack", "OnInit", "GUI-Init", AtTail),
         Reg("Test", "Stack", "OnInit", "GUI-Init", AtTail)>>

\* ConfigLoops inserting ApplyReward after the MinusPhase:End callback.
ConfigLoopsRegsRewardAfter ==
    <<Reg("Train", "Stack", "OnInit", "Init", AtTail),
      Reg("Train", "Trial", "OnStart", "ApplyInputs", AtTail),
      Reg("Test", "Trial", "OnStart", "ApplyInputs", AtTail),
      Reg("Train", "Run", "OnStart", "NewRun", AtTail),
      Reg("Train", "Run", "OnEnd", "RunDone", AtTail),
      Reg("Train", "Cycle", "MinusPhase:End", "ApplyReward", After("MinusPhase:End")),
      Reg("Train", "Epoch", "IsDone", "NZeroStop", AtTail),
      Reg("Train", "Epoch", "OnStart", "TestAtInterval", AtTail),
      Reg("Test", "Epoch", "OnEnd", "LogTestErrors", AtTail)>>
    \o AddOnEndToAll("Log")
    \o <<Reg("Train", "Run", "OnEnd", "RunStats", AtTail),
         Reg("Train", "Stack", "OnInit", "GUI-Init", AtTail),
         Reg("Test", "Stack", "OnInit", "GUI-Init", AtTail)>>

\* ConfigLoops: the callbacks it registers by name, in the order of its
\* statements.
ConfigLoopsRegs ==
    <<Reg("Train", "Stack", "OnInit", "Init", AtTail),
      Reg("Train", "Trial", "OnStart", "ApplyInputs", AtTail),
      Reg("Test", "Trial", "OnStart", "ApplyInputs", AtTail),
      Reg("Train", "Run", "OnStart", "NewRun", AtTail),
      Reg("Train", "Run", "OnEnd", "RunDone", AtTail),
      Reg("Train", "Cycle", "MinusPhase:End", "ApplyReward", Before("MinusPhase:End")),
      Reg("Train", "Epoch", "IsDone", "NZeroStop", AtTail),
      Reg("Train", "Epoch", "OnStart", "TestAtInterval", AtTail),
      Reg("Test", "Epoch", "OnEnd", "LogTestErrors", AtTail)>>
    \o AddOnEndToAll("Log")
    \o <<Reg("Train", "Run", "OnEnd", "RunStats", AtTail),
         Reg("Train", "Stack", "OnInit", "GUI-Init", AtTail),
         Reg("Test", "Stack", "OnInit", "GUI-Init", AtTail)>>

\* Every registration of ConfigLoops, the library's phase events first.
AllRegs == StdPhasesRegs \o ConfigLoopsRegs

NoAttempt ==
    [key |-> <<>>, name |-> "", pos |-> AtTail, had |-> FALSE, anchored |-> FALSE,
     ok |-> TRUE, err |-> "none", same |-> TRUE, extra |-> FALSE]

\* looper.NewStacks: every registry empty.
RegInit ==
    [pc |-> 0, funcs |-> [k \in RegKeys |-> <<>>], failed |-> 0, extra |-> 0,
     last |-> NoAttempt]

\* One registration r made on the registries of R.
Register(R, r, isExtra) ==
    LET fs == R.funcs[r.key]
        res == RegisterCallback(fs, r.name, r.pos)
    IN  [R EXCEPT !.funcs[r.key] = res.funcs,
                  !.pc = IF isExtra THEN @ ELSE @ + 1,
                  !.extra = IF isExtra THEN @ + 1 ELSE @,
                  !.failed = IF ~isExtra /\ ~res.ok THEN @ + 1 ELSE @,
                  !.last = [key |-> r.key, name |-> r.name, pos |-> r.pos,
                            had |-> r.name \in FuncNames(fs),
                            anchored |-> r.pos.anchor \in FuncNames(fs),
                            ok |-> res.ok, err |-> res.err,
                            same |-> res.funcs = fs, extra |-> isExtra]]

RECURSIVE RegisterAll(_, _, _)
RegisterAll(R, rs, n) ==
    IF n = 0 THEN R ELSE Register(RegisterAll(R, rs, n - 1), rs[n], FALSE)

\* The registries ConfigLoops leaves.
RegAfterConfig == [RegisterAll(RegInit, AllRegs, Len(AllRegs)) EXCEPT !.last = NoAttempt]

\* ---------------------------------------------------------------- stop

NoReq == [pc |-> "none", mode |-> "none", time |-> "none", nested |-> FALSE,
          train |-> <<>>, started |-> <<>>, cyc |-> -1, ends |-> -1]
NoHalt == [loops |-> <<>>, started |-> <<>>, cyc |-> -1, ends |-> -1, nz |-> -1]

\* No stop requested, nothing halted or suspended.
StopInit ==
    [flag |-> FALSE, halted |-> FALSE, susp |-> FALSE, resumed |-> FALSE,
     stops |-> 0, req |-> NoReq, at |-> NoHalt]

\* Init: ss.GUI.StopNow = false.
InitStopNow(f) == FALSE

\* A halted loop returning to the loop above it with that loop's OnEnd,
\* increment and IsDone still to run.
HaltReturnRunsOnEnd == "end"

\* A halted loop returns false: the loop above it skips its OnEnd, increment
\* and IsDone and comes back to the top of its own pass.
HaltReturn == "top"

\* TestAll clearing the halt when its Test run returns.
TestAllSwallowsStop(h) == FALSE

\* TestAll returns without touching the halt in progress.
TestAllStopAfter(h) == h

\* Run(mode) resetting the counters of the stack it runs.
RunResetsCounters(L, m) == ResetCountersByMode(L, m)

\* Run(mode) starts from the counters as they are.
RunCounters(L, m) == L

\* -------------------------------------------------------------- nesting

\* TestAtInterval added to the OnStart of the Test Epoch loop.
TestAtIntervalOnTestEpoch == <<"Test", "Epoch">>

\* ConfigLoops adds TestAtInterval to the OnStart of the Train Epoch loop.
TestAtIntervalOn == <<"Train", "Epoch">>

HasTestAtInterval(m, t) == <<m, t>> = TestAtIntervalOn

\* The depth of mode switches the design supports.
MaxDepth == 1

\* A run started whatever the depth of the runs in progress.
StartRunAnyDepth(depth) == "run"

\* A run asked for by a callback: refused when the depth is used up.
StartRun(depth) == IF depth >= MaxDepth THEN "fail" ELSE "run"

NestInit == [tried |-> 0, err |-> FALSE, same |-> TRUE]

\* --------------------------------------------- boundaries, context, view

\* No callback of a Train Run OnEnd fired yet.
NoEvent == [key |-> <<>>, idx |-> 0, trail |-> <<>>, cyc |-> -1, rewards |-> 0]
\* What was in place when the Test run in progress stepped its environment
\* for the first time.
NoTest == [key |-> <<>>, net |-> <<>>, lstats |-> <<>>, rew |-> -1]
OrdInit == [at |-> -1, idx |-> 0, trail |-> <<>>, row |-> FALSE,
            statsSawRow |-> FALSE, exptInc |-> FALSE, ev |-> NoEvent,
            drawn |-> <<>>, tst |-> NoTest]

RunOnEnd == <<"Train", "Run", "OnEnd">>

\* The callbacks ConfigLoops puts in the Train Run OnEnd: RunDone counts the
\* experiment when the last run ends, Log writes the row of the run in the
\* Train Run log, RunStats computes its statistics over the rows of that log.
RunOnEndCall(name, o, run, c) ==
    CASE name = "RunDone" -> [o EXCEPT !.exptInc = run >= c.NRuns - 1]
      [] name = "Log" -> [o EXCEPT !.row = TRUE]
      [] name = "RunStats" -> [o EXCEPT !.statsSawRow = o.row]
      [] OTHER -> o
\* ss.Context after Init, and what ApplyInputs did last: the stack whose
\* Trial OnStart called it, the environment it stepped, and the Step calls
\* each environment had since its Init(0).
CtxInit == [Mode |-> "Train", Cycle |-> 0, by |-> "none", stepped |-> "none",
            steps |-> [m \in Modes |-> 0]]

\* The counter stats after Init.
StatsZero == [t \in {"Run", "Epoch", "Trial", "Cycle"} |-> 0]

\* Two executions of the same run side by side: one with a net view
\* attached to ss.ViewUpdate, one without; each with its counter stats and
\* its view text.
GuiInit ==
    [v \in {"view", "noView"} |->
        [View |-> v = "view", Stats |-> StatsZero, Text |-> <<>>]]

ObsInit == ord = OrdInit /\ ctx = CtxInit /\ gui = GuiInit

\* -------------------------------------------------------------- neuron

\* Sim.NCycles (min 10) and Sim.UpdateInterval (min 1, default 10).
MinCycles == 10
NCyclesVals == MinCycles..MaxCycles
UpdateIntervalVals == {1, 10}

NoStopAt == [pc |-> "none", cyc |-> -1]

\* Defaults: NCycles = 200, OnCycle = 10, OffCycle = 160, UpdateInterval = 10.
DefNCycles == 200
DefOnCycle == 10
DefOffCycle == 160
DefUpdateInterval == 10

\* SpikeVsRate reads the Act column of TstCycLog at this row.
ActRow == 159

NoRead == [exists |-> TRUE, fresh |-> TRUE, n |-> 0]

\* The SpikeVsRate goroutine: where it is, its gbarE step, ns and row, and
\* what happened to a Stop pressed while it ran.
SvrInit ==
    [pc |-> "none", ret |-> "none", step |-> 0, ns |-> 0, row |-> 0,
     stopped |-> FALSE, observed |-> FALSE, cleared |-> FALSE,
     begunAfter |-> FALSE, again |-> FALSE, logged |-> FALSE,
     read |-> NoRead]

\* TstCycLog after ConfigTstCycLog: NCycles rows; fresh says that the row
\* ActRow was written by the RunCycles call going on or last made.
LogInit == [Rows |-> DefNCycles, fresh |-> FALSE]

\* LogTstCyc(dt, cyc): the table grows to cyc + 1 rows, the row cyc is set.
LogTstCyc(dt, cyc) ==
    [Rows |-> IF dt.Rows <= cyc THEN cyc + 1 ELSE dt.Rows,
     fresh |-> dt.fresh \/ cyc = ActRow]

\* ResetTstCycPlot: SetNumRows(0).
ResetTstCycPlot(dt) == [dt EXCEPT !.Rows = 0]

\* The toolbar buttons enabled by s.SetEnabled(!ss.IsRunning).
EnabledAlways(isRunning) == isRunning \/ ~isRunning

EnabledIdle(isRunning) == ~isRunning

EnabledRunning(isRunning) == isRunning

\* The neuron Sim after New and Config, nothing running.
NrnInit ==
    [NCycles |-> MinCycles, UpdateInterval |-> 10, IsRunning |-> FALSE,
     StopNow |-> FALSE, Cycle |-> 0, cyc |-> 0, pc |-> "idle", runs |-> 0,
     started |-> <<>>, updated |-> <<>>, logged |-> <<>>, viewed |-> <<>>,
     stopAt |-> NoStopAt, ret |-> -1,
     OnCycle |-> 0, OffCycle |-> MinCycles - 1, inputOn |-> FALSE, on |-> <<>>,
     caller |-> "button", svr |-> SvrInit, log |-> LogInit, during |-> FALSE,
     both |-> FALSE]

\* RunCycles: switch cyc { case ss.OnCycle: inputOn = true
\*                        case ss.OffCycle: inputOn = false }
InputSwitch(cyc, onCycle, offCycle, inputOn) ==
    IF cyc = onCycle THEN TRUE
    ELSE IF cyc = offCycle THEN FALSE
    ELSE inputOn

\* RunCycles going on to the next cycle whatever StopNow says.
StopNowIgnored(stop) == FALSE

\* RunCycles: if ss.StopNow { break }, the last statement of a cycle.
StopNowBreaks(stop) == stop

\* ------------------------------------------------------------ history

NoSnap == [mode |-> "none", train |-> <<>>]
NoRet == [prior |-> "none", after |-> "none", before |-> <<>>, train |-> <<>>,
          nested |-> FALSE]
NoEval == [seen |-> -1, res |-> FALSE, left |-> -1, time |-> "none",
           run |-> -1, epoch |-> -1, init |-> -1]

HistInit ==
    [cycTicks |-> 0, everDone |-> FALSE, fresh |-> FALSE, last |-> "none",
     nzEvals |-> 0, epochEnds |-> 0, doneInRun |-> FALSE, testsInRun |-> 0,
     altOK |-> TRUE, snap |-> NoSnap, ret |-> NoRet, eval |-> NoEval,
     initRun |-> -1, expt |-> [v \in {"view", "noView"} |-> <<>>]]

AllZero == /\ \A m \in Modes : \A t \in TimeSet(m) : loops[m][t].Cur = 0
           /\ lastStarted = NoneStarted

\* ---------------------------------------------------------------- Init

\* The state New, ConfigAll and Init leave, for the Config c.
SchedInit(c) ==
    /\ cfg = c
    /\ Mode = "Train"
    /\ loops = ConfigLoops(c)
    /\ lastStarted = NoneStarted
    /\ stk = <<>>
    /\ job = "none"
    /\ stats = NewRun([NZero |-> 0])
    /\ trnErr = FALSE
    /\ hist = HistInit

EntInit ==
    /\ flags = Defaults
    /\ avgM = [l \in {"Hidden", "GPiThal"} |-> [u \in 1..NUnits |-> 0]]
    /\ ent = -1

RewInit ==
    /\ envs = [m \in Modes |-> EnvInit]
    /\ net = NetInit
    /\ lstats = InitStats
    /\ rhist = NoCall

\* ------------------------------------------------------- the priming sim

\* The pattern tables OpenPatterns reads, and the values of EnvTypes.
PrmTables == {"TrainA", "TrainB", "TrainAll"}
EnvTypes == {"TrainB", "TrainA", "TrainAll", "TestA", "TestB", "TestAll"}

\* SetEnv's switch: the environment a type is about and the table it names.
EnvOfType(t) == IF t \in {"TrainA", "TrainB", "TrainAll"} THEN "Train" ELSE "Test"

TableOfType(t) ==
    CASE t \in {"TrainA", "TestA"} -> "TrainA"
      [] t \in {"TrainB", "TestB"} -> "TrainB"
      [] OTHER -> "TrainAll"

\* env.FixedTable: Init(0) puts the Trial counter before the first row,
\* Config(view) sets the table and calls Init(0), Step moves to the next row
\* and wraps at the end of the table.
FixedTableInit(e) == [e EXCEPT !.Trial = -1]
FixedTableConfig(e, tbl) == FixedTableInit([e EXCEPT !.Table = tbl])
FixedTableStep(e, rows) == [e EXCEPT !.Trial = (@ + 1) % rows[e.Table]]

\* ConfigEnv of the priming sim: the environments are kept when they exist,
\* and configured with TrainAll and TrainA.
PrimingConfigEnv(E) ==
    [Train |-> FixedTableConfig(E["Train"], "TrainAll"),
     Test |-> FixedTableConfig(E["Test"], "TrainA")]

\* ConfigLoops of the priming sim: the Max of the Trial loop of each stack.
PrimingConfigLoops(rows) == [Train |-> rows["TrainAll"], Test |-> rows["TrainA"]]

\* ApplyParams of the priming sim sets the Max of the Run and Epoch loops of
\* the Train stack, and leaves the Trial loops as they are.
PrimingApplyParams(mx) == mx

\* SetEnv(envType).
SetEnv(p, t) ==
    [p EXCEPT !.EnvType = t,
              !.Envs[EnvOfType(t)] = FixedTableConfig(@, TableOfType(t)),
              !.setEnv = TRUE, !.last = "SetEnv"]

\* Init of the priming sim: ResetCounters, ConfigEnv, ApplyParams, NewRun.
PrimingInit(p) ==
    [p EXCEPT !.Cur = [m \in Modes |-> 0],
              !.Envs = [m \in Modes |-> FixedTableInit(PrimingConfigEnv(@)[m])],
              !.Max = PrimingApplyParams(@),
              !.shown = [m \in Modes |-> <<>>],
              !.last = "Init"]

\* The priming sim after New and ConfigAll, its tables of the given sizes.
PrmAfterConfig(rows) ==
    [rows |-> rows, EnvType |-> "TrainAll",
     Envs |-> PrimingConfigEnv([m \in Modes |-> [Table |-> "TrainAll", Trial |-> -1]]),
     Max |-> PrimingConfigLoops(rows),
     Cur |-> [m \in Modes |-> 0],
     shown |-> [m \in Modes |-> <<>>],
     setEnv |-> FALSE, last |-> "ConfigAll"]

PrmInit == PrmAfterConfig([t \in PrmTables |-> 1])

AuxInit ==
    /\ reg = RegAfterConfig
    /\ sc = StopInit
    /\ nest = NestInit
    /\ nrn = NrnInit
    /\ fix = FixInit /\ prm = PrmInit
    /\ ObsInit

Init ==
    /\ \E c \in Configs : SchedInit(c)
    /\ EntInit
    /\ RewInit
    /\ AuxInit

\* ------------------------------------------------------------- frames

Top == stk[Len(stk)]
Pop(s) == SubSeq(s, 1, Len(s) - 1)
SetTop(s, f) == [s EXCEPT ![Len(s)] = f]
TimeOf(f) == Order(f.mode)[f.lev]
Ctr(f) == loops[f.mode][TimeOf(f)]
IsLeaf(f) == f.lev = Len(Order(f.mode))
Frame(m, l) == [mode |-> m, lev |-> l, pc |-> "top"]

\* The loop of the frame is over: the for condition fails or IsDone said so.
Exiting(f) == f.pc = "exit" \/ (f.pc = "top" /\ ~LoopCond(Ctr(f)))

\* runLevel(currentLevel + 1) from frame f, with md the value of Loops.Mode:
\* a level below the end of the stack returns true at once.
Descend(s, f, md) ==
    IF f.lev + 1 <= Len(Order(md))
    THEN Append(SetTop(s, [f EXCEPT !.pc = "sub"]), Frame(md, f.lev + 1))
    ELSE SetTop(s, [f EXCEPT !.pc = "end"])

\* ------------------------------------------------------------ actions

\* Init: ResetCounters, ApplyParams, NewRun.
InitSim ==
    /\ stk = <<>>
    /\ loops' = ApplyParams(ResetCounters(loops), cfg)
    /\ lastStarted' = NoneStarted
    /\ stats' = NewRun(stats)
    /\ trnErr' = FALSE
    /\ job' = "none"
    /\ hist' = HistInit
    /\ sc' = [sc EXCEPT !.flag = InitStopNow(@), !.susp = FALSE, !.resumed = FALSE,
                        !.req = NoReq, !.at = NoHalt]
    /\ UNCHANGED <<cfg, Mode, stk>>
    /\ UNCHANGED <<entVars, net, rhist, reg, nest, nrn, fix, prm>>
    /\ envs' = NewRunEnvs(envs)
    /\ lstats' = InitStats
    /\ ord' = OrdInit
    /\ ctx' = [NewRunCtx(ctx) EXCEPT !.by = "none", !.stepped = "none"]
    /\ gui' = GuiStatCounters(gui, ctx', loops')

\* Loops.Run(mode) from the toolbar: Mode = mode, the halt of an earlier run
\* is forgotten, then runLevel(0) from the counters as they are. A Train run
\* that goes on after a stop adds to what was observed before the stop.
RunMode(m) ==
    /\ stk = <<>>
    /\ Mode' = m
    /\ stk' = <<Frame(m, 1)>>
    /\ job' = m
    /\ loops' = RunCounters(loops, m)
    /\ hist' = IF sc.susp /\ m = "Train" THEN hist
               ELSE [HistInit EXCEPT !.fresh = AllZero]
    /\ sc' = [sc EXCEPT !.halted = FALSE, !.susp = FALSE,
                        !.resumed = sc.susp /\ m = "Train",
                        !.req = NoReq, !.at = NoHalt]
    /\ UNCHANGED <<cfg, lastStarted, stats, trnErr>>
    /\ UNCHANGED <<entVars, rewVars, reg, nest, nrn, fix, prm, ctx, gui>>
    /\ ord' = OrdInit

RunTrain == RunMode("Train")
RunTest == RunMode("Test")

\* TestAll called while nothing runs: the Test stack is reset and run, the
\* halt of an earlier run forgotten.
TestAllCall ==
    /\ stk = <<>>
    /\ loops' = TestAllReset(loops)
    /\ lastStarted' = ForgetStartedByMode(lastStarted, "Test")
    /\ Mode' = "Test"
    /\ stk' = <<Frame("Test", 1)>>
    /\ job' = "TestAll"
    /\ hist' = [HistInit EXCEPT !.snap = [mode |-> Mode, train |-> loops["Train"]]]
    /\ sc' = [sc EXCEPT !.halted = FALSE, !.susp = FALSE, !.resumed = FALSE,
                        !.req = NoReq, !.at = NoHalt]
    /\ UNCHANGED <<cfg, stats, trnErr>>
    /\ UNCHANGED <<entVars, net, lstats, rhist, reg, nest, nrn, fix, prm, gui>>
    /\ envs' = TestAllEnvs(envs)
    /\ ord' = OrdInit
    /\ ctx' = TestAllEnv(ctx)

\* One pass of a loop that has a finer loop below it, up to the recursion:
\* the OnStart callbacks (once per counter value), then runLevel(level + 1).
TickStart ==
    /\ stk # <<>>
    /\ Top.pc = "top" /\ ~IsLeaf(Top) /\ LoopCond(Ctr(Top))
    /\ LET f == Top
           m == f.mode
           t == TimeOf(f)
           c == Ctr(f)
           fire == c.Cur > lastStarted[m][t]
       IN  /\ ~(fire /\ HasTestAtInterval(m, t) /\ TestAtInterval(cfg, c.Cur))
           /\ lastStarted' = IF fire THEN [lastStarted EXCEPT ![m][t] = c.Cur]
                             ELSE lastStarted
           /\ stats' = IF fire /\ m = "Train" /\ t = "Run" THEN NewRun(stats)
                       ELSE stats
           /\ trnErr' = IF fire /\ m = "Train" /\ t \in {"Run", "Epoch"} THEN FALSE
                        ELSE trnErr
           /\ hist' = IF fire /\ m = "Train" /\ t = "Run"
                      THEN [hist EXCEPT !.doneInRun = FALSE, !.testsInRun = 0,
                                        !.altOK = TRUE, !.initRun = c.Cur]
                      ELSE hist
           /\ stk' = Descend(stk, f, Mode)
    /\ UNCHANGED <<cfg, Mode, loops, job>>
    /\ UNCHANGED <<entVars, net, rhist, reg, sc, nest, nrn, fix, prm, ord>>
    /\ LET fire == Ctr(Top).Cur > lastStarted[Top.mode][TimeOf(Top)]
           newRun == fire /\ Top.mode = "Train" /\ TimeOf(Top) = "Run"
       IN  /\ envs' = IF newRun THEN NewRunEnvs(envs) ELSE envs
           /\ lstats' = IF newRun THEN InitStats ELSE lstats
           /\ ctx' = IF fire THEN OnStartCtx(ctx, Top.mode, TimeOf(Top)) ELSE ctx
           /\ gui' = IF fire /\ Top.mode = "Train" /\ TimeOf(Top) = "Run"
                      THEN GuiStatCounters(gui, ctx', loops)
                      ELSE gui

\* The Epoch OnStart whose TestAtInterval callback calls TestAll:
\* the Test stack is reset and run inside the callback.
TickStartTest ==
    /\ stk # <<>>
    /\ Top.pc = "top" /\ ~IsLeaf(Top) /\ LoopCond(Ctr(Top))
    /\ LET f == Top
           c == Ctr(f)
       IN  /\ HasTestAtInterval(f.mode, TimeOf(f))
           /\ c.Cur > lastStarted[f.mode][TimeOf(f)]
           /\ TestAtInterval(cfg, c.Cur)
           /\ lastStarted' = ForgetStartedByMode(
                  [lastStarted EXCEPT ![f.mode][TimeOf(f)] = c.Cur], "Test")
           /\ loops' = TestAllReset(loops)
           /\ Mode' = "Test"
           /\ stk' = Append(SetTop(stk, [f EXCEPT !.pc = "test"]), Frame("Test", 1))
           /\ hist' = [hist EXCEPT !.testsInRun = @ + 1,
                                   !.snap = [mode |-> Mode, train |-> loops["Train"]]]
    /\ UNCHANGED <<cfg, job, stats, trnErr>>
    /\ UNCHANGED <<entVars, net, lstats, rhist, reg, sc, nest, nrn, fix, prm, ord>>
    /\ envs' = TestAllEnvs(envs)
    /\ ctx' = TestAllEnv(SetCtxMode(ctx, Top.mode))
    /\ UNCHANGED gui

\* The nested Test run is over: TestAll sets the mode and returns, the rest of
\* the Train Epoch OnStart callbacks run, and the Epoch pass goes on.
TestReturn ==
    /\ Len(stk) >= 2
    /\ Exiting(Top) /\ Top.lev = 1
    /\ stk[Len(stk) - 1].pc = "test"
    /\ LET f == stk[Len(stk) - 1]
           md == TestAllExitMode(hist.snap.mode)
       IN  /\ Mode' = md
           /\ trnErr' = FALSE
           /\ stk' = Descend(Pop(stk), f, md)
           /\ hist' = [hist EXCEPT !.snap = NoSnap,
                                   !.ret = [prior |-> hist.snap.mode, after |-> md,
                                            before |-> hist.snap.train,
                                            train |-> loops["Train"],
                                            nested |-> TRUE]]
    /\ UNCHANGED <<cfg, loops, lastStarted, job, stats>>
    /\ UNCHANGED <<entVars, rewVars, auxVars>>

\* A finer loop is over: runLevel returns true to the loop above it.
LoopExit ==
    /\ Len(stk) >= 2
    /\ Exiting(Top)
    /\ stk[Len(stk) - 1].pc = "sub"
    /\ stk' = SetTop(Pop(stk), [stk[Len(stk) - 1] EXCEPT !.pc = "end"])
    /\ UNCHANGED <<cfg, Mode, loops, lastStarted, job, stats, trnErr, hist>>
    /\ UNCHANGED <<entVars, rewVars, auxVars>>

\* The outermost loop is over: Run returns to its caller.
RunFinish ==
    /\ Len(stk) = 1
    /\ Exiting(Top)
    /\ stk' = <<>>
    /\ job' = "none"
    /\ Mode' = IF job = "TestAll" THEN TestAllExitMode(hist.snap.mode) ELSE Mode
    /\ hist' = IF job = "TestAll"
               THEN [hist EXCEPT !.last = job, !.snap = NoSnap,
                                 !.ret = [prior |-> hist.snap.mode,
                                          after |-> TestAllExitMode(hist.snap.mode),
                                          before |-> hist.snap.train,
                                          train |-> loops["Train"],
                                          nested |-> FALSE]]
               ELSE [hist EXCEPT !.last = job]
    /\ UNCHANGED <<cfg, loops, lastStarted, stats, trnErr>>
    /\ UNCHANGED <<entVars, rewVars, auxVars>>

\* One whole pass of a Cycle loop: events, OnStart, OnEnd, increment.
CycleTick ==
    /\ stk # <<>>
    /\ Top.pc = "top" /\ IsLeaf(Top) /\ LoopCond(Ctr(Top))
    /\ LET f == Top
           m == f.mode
           t == TimeOf(f)
       IN  /\ loops' = [loops EXCEPT ![m][t].Cur = @ + 1]
           /\ lastStarted' = [lastStarted EXCEPT ![m][t] = loops[m][t].Cur]
           /\ hist' = IF m = "Train" THEN [hist EXCEPT !.cycTicks = @ + 1] ELSE hist
    /\ UNCHANGED <<cfg, Mode, stk, job, stats, trnErr>>
    /\ UNCHANGED <<entVars, rewVars, reg, sc, nest, nrn, fix, prm, ord>>
    /\ ctx' = LogMode(CycleInc(SetCtxMode(ctx, Top.mode)), Top.mode)
    /\ gui' = GuiNetView(gui, TimeOf(Top), ctx', loops)

\* The finer loop returned true: OnEnd callbacks, increment, reset of the
\* next finer counter, then the IsDone predicates.
TickEnd ==
    /\ stk # <<>>
    /\ Top.pc = "end"
    /\ LET f == Top
           m == f.mode
           t == TimeOf(f)
           trainEpoch == m = "Train" /\ t = "Epoch"
           st1 == IF trainEpoch THEN LogEpoch(stats, trnErr) ELSE stats
           r == IF IsDoneAt(m, t) THEN NZeroStop(st1, cfg)
                ELSE [stop |-> FALSE, stats |-> st1]
           prevZero == stats.NZero > 0
       IN  /\ \E e \in BOOLEAN :
                 trnErr' = IF m = "Train" /\ t = "Trial" THEN (trnErr \/ e) ELSE trnErr
           /\ stats' = r.stats
           /\ loops' = IF f.lev < Len(Order(m))
                       THEN [loops EXCEPT ![m][t].Cur = @ + 1,
                                          ![m][Order(m)[f.lev + 1]].Cur = 0]
                       ELSE [loops EXCEPT ![m][t].Cur = @ + 1]
           /\ lastStarted' = IF f.lev < Len(Order(m))
                             THEN [lastStarted EXCEPT ![m][Order(m)[f.lev + 1]] = -1]
                             ELSE lastStarted
           /\ stk' = SetTop(stk, [f EXCEPT !.pc = IF r.stop THEN "exit" ELSE "top"])
           /\ hist' = [hist EXCEPT
                  !.expt = IF m = "Train" /\ t = "Run"
                           THEN [v \in DOMAIN @ |->
                                    IF RunDone(gui[v].Stats, cfg)
                                    THEN Append(@[v], loops[m][t].Cur) ELSE @[v]]
                           ELSE @,
                  !.epochEnds = IF trainEpoch THEN @ + 1 ELSE @,
                  !.nzEvals = IF IsDoneAt(m, t) THEN @ + 1 ELSE @,
                  !.eval = IF IsDoneAt(m, t)
                           THEN [seen |-> st1.NZero, res |-> r.stop,
                                 left |-> r.stats.NZero, time |-> t,
                                 run |-> loops["Train"]["Run"].Cur,
                                 epoch |-> loops[m][t].Cur, init |-> hist.initRun]
                           ELSE @,
                  !.everDone = @ \/ r.stop,
                  !.doneInRun = @ \/ r.stop,
                  !.altOK = IF trainEpoch /\ loops[m][t].Cur > 0
                            THEN @ /\ (prevZero = trnErr)
                            ELSE @]
    /\ UNCHANGED <<cfg, Mode, job>>
    /\ UNCHANGED <<entVars, rewVars, reg, sc, nest, nrn, fix, prm, ord>>
    /\ ctx' = LogMode(ctx, Top.mode)
    /\ gui' = GuiNetView(IF TimeOf(Top) = "Trial"
                          THEN GuiStatCounters(gui, ctx', loops) ELSE gui,
                          TimeOf(Top), ctx', loops)

Next ==
    \/ InitSim
    \/ RunTrain
    \/ RunTest
    \/ TestAllCall
    \/ TickStart
    \/ TickStartTest
    \/ TestReturn
    \/ LoopExit
    \/ RunFinish
    \/ CycleTick
    \/ TickEnd

Spec == Init /\ [][Next]_vars

\* ------------------------------------- CalcEntropy on drawn activations

ActivationSets ==
    [Hidden : [Units -> HidVals], GPiThal : [Units -> GpiVals]]

\* The vectors whose units all have the same value, the all-zero one included.
UniformActivations ==
    {[Hidden |-> [u \in Units |-> h], GPiThal |-> [u \in Units |-> g]] :
        h \in HidVals, g \in GpiVals}

InitEnt ==
    /\ SchedInit(Scenario)
    /\ flags \in [ModLearnRate : BOOLEAN, EntropyMeasureType : BOOLEAN]
    /\ avgM \in ActivationSets
    /\ ent = -1
    /\ RewInit
    /\ AuxInit

\* The user edits ModLearnRate or EntropyMeasureType.
SetFlags ==
    /\ flags' \in [ModLearnRate : BOOLEAN, EntropyMeasureType : BOOLEAN]
    /\ ent' = -1
    /\ UNCHANGED <<avgM, schedVars, rewVars, auxVars>>

\* CalcEntropy on the activations of the moment.
CalcEntropyCall ==
    /\ ent' = CalcEntropy(flags, avgM)
    /\ UNCHANGED <<flags, avgM, schedVars, rewVars, auxVars>>

NextEnt == SetFlags \/ CalcEntropyCall

SpecEnt == InitEnt /\ [][NextEnt]_vars

\* ------------------------------------------ ApplyReward on trial schedules

InitRew ==
    /\ SchedInit(Scenario)
    /\ flags \in [ModLearnRate : BOOLEAN, EntropyMeasureType : BOOLEAN]
    /\ avgM = [l \in {"Hidden", "GPiThal"} |-> [u \in 1..NUnits |-> 0]]
    /\ ent = -1
    /\ RewInit
    /\ AuxInit

\* NewRun: both environments are initialised again.
EnvNewRun ==
    /\ envs' = NewRunEnvs(envs)
    /\ lstats' = InitStats
    /\ rhist' = NoCall
    /\ UNCHANGED <<net, schedVars, entVars, auxVars>>

\* ApplyInputs at the start of a Train trial: the Train environment steps.
EnvStepTrial ==
    /\ \E a \in NextActions(envs["Train"]), st \in 0..(NStim - 1) :
          /\ envs' = [envs EXCEPT !["Train"] = EnvStep(@, a, st)]
          /\ rhist' = [NoCall EXCEPT
                 !.stored = IF a \in {"Store1", "Store2"}
                            THEN rhist.stored \cup {SlotOf(a)} ELSE rhist.stored,
                 !.first = IF rhist.first = "none" THEN a ELSE rhist.first]
    /\ UNCHANGED <<net, lstats, schedVars, entVars, auxVars>>

\* The ApplyReward(true) event of the trial, with the network's output index
\* and activations of the moment.
ApplyRewardCall ==
    /\ ~envs["Train"].first
    /\ rhist.n = 0
    /\ \E mxi \in 0..(NStim - 1), a \in UniformActivations :
          LET S == [envs |-> envs, net |-> net, lstats |-> lstats]
              r == ApplyReward(TRUE, S, mxi, flags, a)
          IN  /\ envs' = r.envs
              /\ net' = r.net
              /\ lstats' = r.lstats
              /\ rhist' = [n |-> 1, act |-> envs["Train"].act, calls |-> r.calls,
                           same |-> (r.envs = envs /\ r.net = net /\ r.lstats = lstats),
                           ent |-> r.ent,
                           stored |-> rhist.stored, first |-> rhist.first]
    /\ UNCHANGED <<schedVars, entVars, auxVars>>

NextRew == EnvNewRun \/ EnvStepTrial \/ ApplyRewardCall

SpecRew == InitRew /\ [][NextRew]_vars

\* -------------------------------- ApplyReward on a fixed trial schedule

InitFix ==
    /\ SchedInit(Scenario)
    /\ flags = [ModLearnRate |-> TRUE, EntropyMeasureType |-> FALSE]
    /\ avgM = [l \in {"Hidden", "GPiThal"} |-> [u \in 1..NUnits |-> 0]]
    /\ ent = -1
    /\ RewInit
    /\ reg = RegAfterConfig /\ sc = StopInit /\ nest = NestInit /\ nrn = NrnInit
    /\ prm = PrmInit
    /\ ObsInit
    /\ \E sd \in Schedules, mk \in Mocks :
          fix = [FixInit EXCEPT !.sched = sd, !.mock = mk]

\* ApplyInputs of the next trial: the environment takes the next action of
\* the schedule, with a stimulus drawn for it.
FixStep ==
    /\ ~fix.due
    /\ Len(fix.trace) < MaxRecalls
    /\ LET a == fix.sched[(fix.pos % Len(fix.sched)) + 1]
       IN  /\ a \in NextActions(envs["Train"])
           /\ \E st \in 0..(NStim - 1) :
                 envs' = [envs EXCEPT !["Train"] = EnvStep(@, a, st)]
    /\ fix' = [fix EXCEPT !.pos = @ + 1, !.due = TRUE]
    /\ UNCHANGED <<net, lstats, rhist, schedVars, entVars, reg, sc, nest, nrn, prm, obsVars>>

\* The ApplyReward(true) event of the trial, the network answering as mocked.
FixReward ==
    /\ fix.due
    /\ \E mxi \in 0..(NStim - 1) :
          /\ fix.mock = "slot1" => mxi = envs["Train"].maint1
          /\ LET S == [envs |-> envs, net |-> net, lstats |-> lstats]
                 r == ApplyReward(TRUE, S, mxi, flags, avgM)
                 onRecall == r.calls # <<>>
             IN  /\ envs' = r.envs
                 /\ net' = r.net
                 /\ lstats' = r.lstats
                 /\ fix' = [fix EXCEPT
                        !.due = FALSE,
                        !.trace = IF onRecall THEN Append(@, r.envs["Train"].rew) ELSE @,
                        !.seen = IF onRecall
                                 THEN [act |-> envs["Train"].act, mxi |-> mxi,
                                       want |-> envs["Train"].stim,
                                       rew |-> r.envs["Train"].rew, ext |-> r.net.Rew]
                                 ELSE @]
    /\ UNCHANGED <<rhist, schedVars, entVars, reg, sc, nest, nrn, prm, obsVars>>

NextFix == FixStep \/ FixReward

SpecFix == InitFix /\ [][NextFix]_vars

\* --------------------------------------- ConfigLoops filling the registries

InitReg ==
    /\ SchedInit(Scenario)
    /\ EntInit
    /\ RewInit
    /\ reg = RegInit
    /\ sc = StopInit
    /\ nest = NestInit
    /\ nrn = NrnInit
    /\ fix = FixInit /\ prm = PrmInit
    /\ ObsInit

\* The next registration of ConfigLoops.
ConfigStep ==
    /\ reg.pc < Len(AllRegs)
    /\ reg' = Register(reg, AllRegs[reg.pc + 1], FALSE)
    /\ UNCHANGED <<schedVars, entVars, rewVars, sc, nest, nrn, fix, prm, obsVars>>

ExtraKeys ==
    {<<"Train", "Cycle", "MinusPhase:End">>, <<"Test", "Cycle", "MinusPhase:End">>,
     <<"Train", "Run", "OnEnd">>}
ExtraNames == {"ApplyReward", "Log", "Extra"}
ExtraPos ==
    {AtTail} \cup {Before(x) : x \in {"MinusPhase:End", "RunStats"}}
             \cup {After(x) : x \in {"MinusPhase:End", "RunStats"}}

\* A further RegisterCallback on the configured stacks, before any Run.
RegisterExtra ==
    /\ reg.pc = Len(AllRegs)
    /\ reg.extra < MaxExtra
    /\ \E k \in ExtraKeys, n \in ExtraNames, p \in ExtraPos :
          reg' = Register(reg, [key |-> k, name |-> n, pos |-> p], TRUE)
    /\ UNCHANGED <<schedVars, entVars, rewVars, sc, nest, nrn, fix, prm, obsVars>>

NextReg == ConfigStep \/ RegisterExtra

SpecReg == InitReg /\ [][NextReg]_vars

\* ------------------------------- the callbacks of a boundary, one by one

\* Runs of one trial, with and without a test at every epoch.
OrdConfigs ==
    [NRuns : 1..MaxRuns, NEpochs : {1, 2}, NTrials : {1}, NZero : {1},
     TestInterval : {0, 1}]

InitOrd ==
    /\ \E c \in OrdConfigs : SchedInit(c)
    /\ EntInit
    /\ RewInit
    /\ AuxInit

\* The pass of the Train Run loop is at its OnEnd callbacks.
AtRunOnEnd ==
    /\ stk # <<>>
    /\ Top.mode = "Train" /\ TimeOf(Top) = "Run" /\ Top.pc = "end"

OrdDone ==
    /\ ord.at = loops["Train"]["Run"].Cur
    /\ ord.idx = Len(reg.funcs[RunOnEnd])

OrdPending == AtRunOnEnd /\ ~OrdDone

\* The next callback of the Train Run OnEnd registry is called.
FireNext ==
    /\ OrdPending
    /\ LET run == loops["Train"]["Run"].Cur
           o == IF ord.at = run THEN ord ELSE [OrdInit EXCEPT !.at = run]
           name == reg.funcs[RunOnEnd][o.idx + 1]
       IN  ord' = [RunOnEndCall(name, o, run, cfg) EXCEPT
                      !.idx = @ + 1, !.trail = Append(@, name)]
    /\ UNCHANGED <<schedVars, entVars, rewVars, reg, sc, nest, nrn, fix, prm, ctx, gui>>

NextOrd == (~OrdPending /\ Next) \/ FireNext

SpecOrd == InitOrd /\ [][NextOrd]_vars

\* ------------------------------------- the phase event of the Cycle loop

\* Runs of one or two epochs and trials, with and without testing.
EvtConfigs ==
    [NRuns : {1}, NEpochs : {1, 2}, NTrials : {1, 2}, NZero : {1},
     TestInterval : {0, 1}]

\* The stimuli and the network answers drawn in the runs of the event.
EvtStims == {0}
EvtAnswers == {0, 1}

InitEvt ==
    /\ \E c \in EvtConfigs : SchedInit(c)
    /\ flags = [ModLearnRate |-> TRUE, EntropyMeasureType |-> TRUE]
    /\ avgM = [l \in {"Hidden", "GPiThal"} |-> [u \in 1..NUnits |-> 0]]
    /\ ent = -1
    /\ RewInit
    /\ AuxInit

\* The trial in progress: the mode and every counter above the Cycle scale.
TrialKey(m) ==
    <<m, loops["Train"]["Run"].Cur, loops["Train"]["Epoch"].Cur,
      loops["Train"]["Trial"].Cur, loops["Test"]["Epoch"].Cur,
      loops["Test"]["Trial"].Cur>>

\* The Test run in progress: the Train Run and Epoch it was called from.
TestKey == <<loops["Train"]["Run"].Cur, loops["Train"]["Epoch"].Cur>>

EventOf(m) == <<m, "Cycle", "MinusPhase:End">>

EventDone(m) ==
    /\ ord.ev.key = TrialKey(m)
    /\ ord.ev.idx = Len(reg.funcs[EventOf(m)])

\* A trial has started and the Step of its ApplyInputs is still to be drawn.
DrawPending ==
    /\ stk # <<>>
    /\ IsLeaf(Top) /\ Top.pc = "top"
    /\ Ctr(Top).Cur = 0
    /\ ord.drawn # TrialKey(Top.mode)

\* The rest of the trial's ApplyInputs: the environment it chose draws an
\* action and a stimulus, and net.InitExt clears the external inputs. The
\* first Step of a Test run notes what the network and the Train
\* environment hold.
EnvDraw ==
    /\ DrawPending
    /\ net' = [net EXCEPT !.Rew = NetInit.Rew]
    /\ LET who == ctx.stepped
           base == envs[who]
       IN  /\ \E a \in NextActions(base), st \in EvtStims :
                 envs' = [envs EXCEPT ![who] = EnvStep(base, a, st)]
           /\ ord' = [ord EXCEPT
                  !.drawn = TrialKey(Top.mode),
                  !.tst = IF Top.mode = "Test" /\ ctx.steps["Test"] = 1
                          THEN [key |-> TestKey, net |-> net', lstats |-> lstats,
                                rew |-> envs["Train"].rew]
                          ELSE @]
    /\ rhist' = NoCall
    /\ UNCHANGED lstats
    /\ UNCHANGED <<schedVars, entVars, reg, sc, nest, nrn, fix, prm, ctx, gui>>

\* The Cycle loop is about to make the pass at which the event is due, and
\* callbacks of the event are still to be called.
EventPending ==
    /\ stk # <<>>
    /\ IsLeaf(Top) /\ Top.pc = "top"
    /\ Ctr(Top).Cur = PlusStart
    /\ ~EventDone(Top.mode)

\* The next callback of the MinusPhase:End event is called; the ApplyReward
\* callback calls ss.ApplyReward(true) with the network's answer of the
\* moment.
FireEvent ==
    /\ EventPending
    /\ LET m == Top.mode
           e == IF ord.ev.key = TrialKey(m) THEN ord.ev
                ELSE [NoEvent EXCEPT !.key = TrialKey(m), !.cyc = Ctr(Top).Cur]
           name == reg.funcs[EventOf(m)][e.idx + 1]
       IN  /\ ord' = [ord EXCEPT !.ev =
                      [e EXCEPT !.idx = @ + 1, !.trail = Append(@, name),
                                !.rewards = IF name = "ApplyReward" THEN @ + 1 ELSE @]]
           /\ IF name = "ApplyReward"
              THEN \E mxi \in EvtAnswers :
                      LET S == [envs |-> envs, net |-> net, lstats |-> lstats]
                          r == ApplyReward(TRUE, S, mxi, flags, avgM)
                      IN  /\ envs' = r.envs
                          /\ net' = r.net
                          /\ lstats' = r.lstats
                          /\ rhist' = [NoCall EXCEPT !.n = 1, !.act = envs["Train"].act,
                                                     !.calls = r.calls, !.ent = r.ent]
              ELSE UNCHANGED rewVars
    /\ UNCHANGED <<schedVars, entVars, reg, sc, nest, nrn, fix, prm, ctx, gui>>

NextEvt == (~EventPending /\ ~DrawPending /\ Next) \/ EnvDraw \/ FireEvent

SpecEvt == InitEvt /\ [][NextEvt]_vars

\* ------------------------------------------- the neuron sim: RunCycles

InitNrn ==
    /\ SchedInit(Scenario)
    /\ EntInit
    /\ RewInit
    /\ reg = RegAfterConfig /\ sc = StopInit /\ nest = NestInit /\ fix = FixInit /\ prm = PrmInit
    /\ ObsInit
    /\ \E n \in NCyclesVals, u \in UpdateIntervalVals :
          nrn = [NrnInit EXCEPT !.NCycles = n, !.UpdateInterval = u]

NrnRest == <<schedVars, entVars, rewVars, reg, sc, nest, fix, prm, obsVars>>

\* The Run cycles button: IsRunning = true, then RunCycles up to its loop:
\* Init (Cycle = 0, StopNow = false), StopNow = false, cyc := 0.
RunCyclesStart ==
    /\ nrn.pc = "idle" /\ EnabledIdle(nrn.IsRunning)
    /\ nrn.runs < MaxNrnRuns
    /\ nrn' = [nrn EXCEPT !.IsRunning = TRUE, !.runs = @ + 1, !.pc = "init",
                          !.caller = "button",
                          !.both = @ \/ nrn.svr.pc # "none",
                          !.started = <<>>, !.updated = <<>>, !.logged = <<>>,
                          !.viewed = <<>>, !.stopAt = NoStopAt, !.ret = -1,
                          !.on = <<>>]
    /\ UNCHANGED NrnRest

RunCyclesInit ==
    /\ nrn.pc = "init"
    /\ nrn' = [nrn EXCEPT !.Cycle = 0, !.StopNow = FALSE, !.cyc = 0,
                          !.inputOn = FALSE, !.pc = "loop",
                          !.log.fresh = FALSE,
                          !.svr.cleared = @ \/ (nrn.caller = "svr" /\ nrn.StopNow
                                                /\ ~nrn.svr.observed)]
    /\ UNCHANGED NrnRest

\* for ...; cyc < ss.NCycles; ... { ss.Cycle = cyc
RunCyclesLoop ==
    /\ nrn.pc = "loop"
    /\ nrn' = IF nrn.cyc < nrn.NCycles
              THEN [nrn EXCEPT !.Cycle = nrn.cyc, !.pc = "body",
                               !.inputOn = InputSwitch(nrn.cyc, nrn.OnCycle,
                                                       nrn.OffCycle, @),
                               !.started = Append(@, nrn.cyc)]
              ELSE [nrn EXCEPT !.pc = "ret"]
    /\ UNCHANGED NrnRest

\* The input, SpikeUpdate or RateUpdate.
RunCyclesUpdate ==
    /\ nrn.pc = "body"
    /\ nrn' = [nrn EXCEPT !.updated = Append(@, nrn.Cycle),
                          !.on = Append(@, nrn.inputOn), !.pc = "upd"]
    /\ UNCHANGED NrnRest

\* LogTstCyc, and UpdateView every UpdateInterval cycles.
RunCyclesLog ==
    /\ nrn.pc = "upd"
    /\ nrn' = [nrn EXCEPT !.logged = Append(@, nrn.Cycle),
                          !.log = LogTstCyc(@, nrn.Cycle),
                          !.viewed = IF nrn.Cycle % nrn.UpdateInterval = 0
                                     THEN Append(@, nrn.Cycle) ELSE @,
                          !.pc = "check"]
    /\ UNCHANGED NrnRest

\* if ss.StopNow { break }, else cyc++.
RunCyclesCheck ==
    /\ nrn.pc = "check"
    /\ nrn' = IF StopNowBreaks(nrn.StopNow)
              THEN [nrn EXCEPT !.pc = "ret"]
              ELSE [nrn EXCEPT !.cyc = @ + 1, !.pc = "loop"]
    /\ UNCHANGED NrnRest

\* UpdateView(ss.Cycle) after the loop, RunCycles returns, IsRunning = false.
RunCyclesReturn ==
    /\ nrn.pc = "ret"
    /\ nrn' = [nrn EXCEPT !.viewed = Append(@, nrn.Cycle), !.ret = nrn.Cycle,
                          !.IsRunning = IF nrn.caller = "button" THEN FALSE ELSE @,
                          !.svr.pc = IF nrn.caller = "svr" THEN nrn.svr.ret ELSE @,
                          !.svr.again = @ \/ (nrn.caller = "svr" /\ nrn.svr.begunAfter),
                          !.cyc = 0, !.inputOn = FALSE,
                          !.pc = "idle"]
    /\ UNCHANGED NrnRest

\* The Stop button, enabled while IsRunning: Stop sets StopNow.
NrnStop ==
    /\ nrn.IsRunning
    /\ ~nrn.StopNow
    /\ nrn' = [nrn EXCEPT !.StopNow = TRUE,
                          !.svr.stopped = @ \/ nrn.svr.pc # "none",
                          !.stopAt = IF @ = NoStopAt
                                     THEN [pc |-> nrn.pc, cyc |-> nrn.cyc] ELSE @]
    /\ UNCHANGED NrnRest

NextNrn ==
    \/ RunCyclesStart
    \/ RunCyclesInit
    \/ RunCyclesLoop
    \/ RunCyclesUpdate
    \/ RunCyclesLog
    \/ RunCyclesCheck
    \/ RunCyclesReturn
    \/ NrnStop

SpecNrn == InitNrn /\ [][NextNrn]_vars

\* ------------------------------------- runs asked for inside a nested run

NestDepth == Cardinality({i \in 1..Len(stk) : stk[i].pc = "test"})

\* Runs that test at every epoch or at every other one.
NestConfigs ==
    [NRuns : {1}, NEpochs : {2}, NTrials : 1..MaxTrials, NZero : {1},
     TestInterval : {1, 2}]

InitNest ==
    /\ \E c \in NestConfigs : SchedInit(c)
    /\ EntInit
    /\ RewInit
    /\ AuxInit

\* An OnStart callback of a loop of the nested Test run asks for a Test run
\* of its own, as TestAll does.
NestedRunAttempt ==
    /\ stk # <<>>
    /\ NestDepth >= 1 /\ Top.mode = "Test"
    /\ Top.pc = "top" /\ ~IsLeaf(Top) /\ LoopCond(Ctr(Top))
    /\ nest.tried < MaxAttempts
    /\ IF StartRun(NestDepth) = "fail"
       THEN UNCHANGED <<loops, lastStarted, stk>>
       ELSE /\ loops' = TestAllReset(loops)
            /\ lastStarted' = ForgetStartedByMode(lastStarted, "Test")
            /\ stk' = Append(SetTop(stk, [Top EXCEPT !.pc = "test"]), Frame("Test", 1))
    /\ nest' = [tried |-> nest.tried + 1,
                err |-> StartRun(NestDepth) = "fail",
                same |-> loops' = loops /\ stk' = stk]
    /\ UNCHANGED <<cfg, Mode, job, stats, trnErr, hist>>
    /\ UNCHANGED <<entVars, rewVars, reg, sc, nrn, fix, prm, obsVars>>

NextNest == Next \/ NestedRunAttempt

SpecNest == InitNest /\ [][NextNest]_vars

\* ------------------------------------------------- runs that are stopped

\* Runs without periodic testing, and one run that tests at every epoch.
StopConfigs ==
    [NRuns : 1..MaxRuns, NEpochs : {2}, NTrials : 1..MaxTrials,
     NZero : {1}, TestInterval : {0}]
    \cup {[NRuns |-> 1, NEpochs |-> 2, NTrials |-> 1, NZero |-> 1, TestInterval |-> 1]}

InitStop ==
    /\ \E c \in StopConfigs : SchedInit(c)
    /\ EntInit
    /\ RewInit
    /\ AuxInit

\* The stop check at the top of a pass of a loop finds the flag set, or the
\* halt it started is still unwinding.
StopNow ==
    /\ stk # <<>>
    /\ Top.pc = "top" /\ LoopCond(Ctr(Top))
    /\ sc.flag \/ sc.halted

\* A Train run was halted and nothing runs.
Suspended == stk = <<>> /\ sc.susp

\* The Stop button while a Train run executes, a Test run nested in it
\* included: the flag is set, nothing else.
StopRequest ==
    /\ stk # <<>> /\ job = "Train"
    /\ ~sc.flag /\ ~sc.halted
    /\ sc.stops < MaxStops
    /\ sc' = [sc EXCEPT !.flag = TRUE, !.stops = @ + 1,
                        !.req = [pc |-> Top.pc, mode |-> Top.mode, time |-> TimeOf(Top),
                                 nested |-> \E i \in 1..Len(stk) : stk[i].pc = "test",
                                 train |-> loops["Train"],
                                 started |-> lastStarted,
                                 cyc |-> hist.cycTicks, ends |-> hist.epochEnds]]
    /\ UNCHANGED <<schedVars, entVars, rewVars, reg, nest, nrn, fix, prm, obsVars>>

\* The stop control once the check has found the flag: the flag is consumed
\* and the halt is on; the first detection notes the counters of the moment.
HaltSc ==
    [sc EXCEPT !.flag = FALSE, !.halted = TRUE,
               !.at = IF @ = NoHalt
                      THEN [loops |-> loops, started |-> lastStarted,
                            cyc |-> hist.cycTicks, ends |-> hist.epochEnds,
                            nz |-> hist.nzEvals]
                      ELSE @]

\* A loop below another one halts: it starts no pass and returns false.
HaltLoop ==
    /\ StopNow
    /\ Len(stk) >= 2
    /\ stk[Len(stk) - 1].pc = "sub"
    /\ stk' = SetTop(Pop(stk), [stk[Len(stk) - 1] EXCEPT !.pc = HaltReturn])
    /\ sc' = HaltSc
    /\ UNCHANGED <<cfg, Mode, loops, lastStarted, job, stats, trnErr, hist>>
    /\ UNCHANGED <<entVars, rewVars, reg, nest, nrn, fix, prm, obsVars>>

\* The nested Test run halts: its Run returns, TestAll sets the mode and
\* returns, and the Train Epoch pass goes on to its Trial loop.
HaltTestReturn ==
    /\ StopNow
    /\ Len(stk) >= 2
    /\ Top.lev = 1
    /\ stk[Len(stk) - 1].pc = "test"
    /\ LET f == stk[Len(stk) - 1]
           md == TestAllExitMode(hist.snap.mode)
       IN  /\ Mode' = md
           /\ trnErr' = FALSE
           /\ stk' = Descend(Pop(stk), f, md)
           /\ hist' = [hist EXCEPT !.snap = NoSnap,
                                   !.ret = [prior |-> hist.snap.mode, after |-> md,
                                            before |-> hist.snap.train,
                                            train |-> loops["Train"],
                                            nested |-> TRUE]]
    /\ sc' = [HaltSc EXCEPT !.halted = TestAllStopAfter(@)]
    /\ UNCHANGED <<cfg, loops, lastStarted, job, stats>>
    /\ UNCHANGED <<entVars, rewVars, reg, nest, nrn, fix, prm, obsVars>>

\* The outermost loop halts: Run returns to its caller with the counters as
\* they are; a halted Train run can be taken up again.
HaltRun ==
    /\ StopNow
    /\ Len(stk) = 1
    /\ stk' = <<>>
    /\ job' = "none"
    /\ Mode' = IF job = "TestAll" THEN TestAllExitMode(hist.snap.mode) ELSE Mode
    /\ hist' = IF job = "TestAll"
               THEN [hist EXCEPT !.snap = NoSnap,
                                 !.ret = [prior |-> hist.snap.mode,
                                          after |-> TestAllExitMode(hist.snap.mode),
                                          before |-> hist.snap.train,
                                          train |-> loops["Train"],
                                          nested |-> FALSE]]
               ELSE hist
    /\ sc' = [HaltSc EXCEPT !.susp = (job = "Train"),
                            !.halted = IF job = "TestAll" THEN TestAllStopAfter(@)
                                       ELSE @]
    /\ UNCHANGED <<cfg, loops, lastStarted, stats, trnErr>>
    /\ UNCHANGED <<entVars, rewVars, reg, nest, nrn, fix, prm, obsVars>>

NextStop ==
    \/ ~StopNow /\ ~Suspended /\ Next
    \/ Suspended /\ (RunTrain \/ InitSim)
    \/ StopRequest
    \/ HaltLoop
    \/ HaltTestReturn
    \/ HaltRun

SpecStop == InitStop /\ [][NextStop]_vars

\* ------------------------------------------------------------- claims

TrainFrames == {i \in 1..Len(stk) : stk[i].mode = "Train"}
TrainRunDone == stk = <<>> /\ hist.last = "Train" /\ hist.fresh
Threshold == IF cfg.NZero > 0 THEN cfg.NZero ELSE 2
MaxOf(t) == loops["Train"][t].Max

\* C1: a full Train Run() from reset counters, in which no IsDone predicate
\* was ever true, has executed exactly R*E*T*C Cycle ticks, which for the
\* stack ConfigLoops builds is NRuns * NEpochs * NTrials * 100.
FullRunTicks ==
    (TrainRunDone /\ ~hist.everDone) =>
        /\ hist.cycTicks = MaxOf("Run") * MaxOf("Epoch") * MaxOf("Trial") * MaxOf("Cycle")
        /\ hist.cycTicks = cfg.NRuns * cfg.NEpochs * cfg.NTrials * 100

FullRunTicksWitness ==
    /\ TrainRunDone /\ ~hist.everDone
    /\ cfg.NRuns = 2 /\ cfg.NEpochs = 3 /\ cfg.NTrials = 2
    /\ hist.cycTicks = 1200

\* C2: NZeroStop is evaluated once after every Train Epoch tick and after no
\* other tick, and once it has returned true no further Epoch tick (and no
\* Trial or Cycle) of that Run starts.
IsDoneOwnScale ==
    /\ hist.nzEvals = hist.epochEnds
    /\ hist.eval.time \in {"none", "Epoch"}
    /\ hist.doneInRun =>
         \A i \in 1..Len(stk) :
            /\ stk[i].mode = "Train"
            /\ \/ stk[i].lev = 1
               \/ stk[i].lev = 2 /\ stk[i].pc = "exit"

IsDoneOwnScaleWitness ==
    /\ hist.doneInRun
    /\ Len(stk) = 2 /\ Top.pc = "exit"
    /\ loops["Train"]["Epoch"].Cur < loops["Train"]["Epoch"].Max

\* C3: a TestAll called from the Train Epoch OnStart leaves every Train
\* counter (Cur and Max) as it was before the call, during the Test run and
\* on return; the Test stack's counters are the ones that move.
TestAllKeepsTrainCounters ==
    /\ (hist.snap.mode # "none" /\ job = "Train") => loops["Train"] = hist.snap.train
    /\ hist.ret.nested => hist.ret.train = hist.ret.before

TestAllKeepsTrainCountersWitness ==
    /\ hist.ret.nested
    /\ hist.ret.before["Epoch"].Cur >= 1
    /\ loops["Test"]["Epoch"].Cur = 1
    /\ loops["Test"]["Trial"].Cur = 0

\* C4 as stated: on return from TestAll, currentMode is whatever it was
\* immediately before the call, Train or Test.
TestAllRestoresMode ==
    hist.ret.prior # "none" => hist.ret.after = hist.ret.prior

\* C4 amended: currentMode is Test while TestAll's Test run executes and is
\* Train on return, which is the prior mode when TestAll was called from a
\* Train run.
TestAllModeIsTrainAfter ==
    /\ hist.snap.mode # "none" => Mode = "Test"
    /\ hist.ret.prior # "none" => hist.ret.after = "Train"
    /\ hist.ret.nested => hist.ret.after = hist.ret.prior
    /\ (stk = <<>> /\ hist.last = "TestAll") => Mode = "Train"

TestAllModeIsTrainAfterWitness ==
    /\ hist.ret.nested
    /\ hist.ret.prior = "Train"
    /\ Mode = "Train"
    /\ Top.mode = "Train" /\ TimeOf(Top) = "Trial"

\* C5: the number of Test sub-runs started so far in a Train Run is the
\* number of started epochs e with TestInterval > 0 and (e+1) % TestInterval
\* = 0, hence none for TestInterval <= 0 and floor(E / k) for TestInterval
\* = k > 0 once the E epochs of a Run ran without early termination.
TestEveryInterval ==
    /\ (Len(stk) >= 2 /\ stk[1].mode = "Train") =>
          hist.testsInRun =
             IF cfg.TestInterval > 0
             THEN (lastStarted["Train"]["Epoch"] + 1) \div cfg.TestInterval
             ELSE 0
    /\ (Len(stk) = 1 /\ Top.mode = "Train" /\ Top.pc = "end" /\ ~hist.doneInRun) =>
          hist.testsInRun =
             IF cfg.TestInterval > 0 THEN cfg.NEpochs \div cfg.TestInterval ELSE 0

TestEveryIntervalWitness ==
    /\ Len(stk) = 1 /\ Top.mode = "Train" /\ Top.pc = "end" /\ ~hist.doneInRun
    /\ cfg.TestInterval = 2 /\ cfg.NEpochs = 3
    /\ hist.testsInRun = 1

\* C6: NZeroStop returns true exactly when stat NZero >= the threshold
\* (Config.NZero if > 0, else 2), leaves stat NZero as it found it, and the
\* Train Epoch loop goes on only while stat NZero is below the threshold.
NZeroStopThreshold ==
    /\ hist.eval.seen >= 0 =>
         /\ hist.eval.res = (hist.eval.seen >= Threshold)
         /\ hist.eval.left = hist.eval.seen
    /\ \A i \in TrainFrames :
         (stk[i].lev = 2 /\ stk[i].pc # "exit") => stats.NZero < Threshold

NZeroStopThresholdWitness ==
    /\ hist.eval.res
    /\ cfg.NZero <= 0
    /\ hist.eval.seen = 2
    /\ stats.NZero = 2

\* C7: in the scenario NRuns=1, NEpochs=3, NTrials=4, NZero=2,
\* TestInterval=-1 with per-epoch errors alternating zero / nonzero, the
\* Train run executes exactly 3 epochs, no Test sub-run, and NZeroStop
\* never ends the Epoch loop.
ScenarioThreeEpochs ==
    (cfg = Scenario /\ TrainRunDone /\ hist.altOK) =>
        /\ hist.epochEnds = 3
        /\ hist.testsInRun = 0
        /\ ~hist.everDone
        /\ hist.cycTicks = 3 * 4 * 100

ScenarioThreeEpochsWitness ==
    /\ cfg = Scenario /\ TrainRunDone /\ hist.altOK
    /\ hist.epochEnds = 3
    /\ stats.NZero = 1

\* C8: an ApplyReward call on a Store1, Store2 or Ignore trial writes no
\* reward, makes no LrateMult call and updates no learning-rate stat: it
\* makes no call at all and leaves the environments, the network and the
\* stats as they were.
NoRewardOffRecall ==
    (rhist.n = 1 /\ rhist.act \notin Recalls) =>
        /\ rhist.calls = <<>>
        /\ rhist.same

NoRewardOffRecallWitness ==
    /\ rhist.n = 1
    /\ rhist.act = "Store2"
    /\ envs["Train"].maint1 >= 0
    /\ net.Rew = 1

\* C9: the multiplier CalcEntropy returns is within [0.25, 4.0], for both
\* entropy variants and every activation vector.
EntropyClamped == ent # -1 => (EntMin <= ent /\ ent <= EntMax)

EntropyClampedWitness ==
    /\ ent = EntMin
    /\ flags.ModLearnRate /\ ~flags.EntropyMeasureType
    /\ \A u \in Units : avgM["GPiThal"][u] = 0

\* C10: with ModLearnRate false the multiplier is 1.0 whatever the
\* activations and the entropy variant.
ModulationOffIsOne == (ent # -1 /\ ~flags.ModLearnRate) => ent = 1000

ModulationOffIsOneWitness ==
    /\ ent = 1000
    /\ ~flags.ModLearnRate /\ flags.EntropyMeasureType
    /\ \A u \in Units : avgM["Hidden"][u] = 5000

\* C11: registering a name that is already in the registry fails with the
\* duplicate-name error and leaves the registry, the earlier callback
\* included, as it was; every registration ConfigLoops makes succeeds, and
\* the names of every registry are pairwise different.
DuplicateNameRejected ==
    /\ \A k \in RegKeys : Cardinality(FuncNames(reg.funcs[k])) = Len(reg.funcs[k])
    /\ reg.last.had =>
          /\ ~reg.last.ok /\ reg.last.err = "duplicate" /\ reg.last.same
          /\ reg.last.name \in FuncNames(reg.funcs[reg.last.key])
    /\ reg.failed = 0

DuplicateNameRejectedWitness ==
    /\ reg.pc = Len(AllRegs)
    /\ reg.last.extra /\ reg.last.had
    /\ reg.last.key = <<"Train", "Run", "OnEnd">> /\ reg.last.name = "Log"
    /\ reg.funcs[<<"Train", "Run", "OnEnd">>] = <<"RunDone", "Log", "RunStats">>

\* C12: a before / after registration whose anchor is not in the registry
\* fails and leaves the registry as it was; ConfigLoops finds its anchor, so
\* ApplyReward sits right before MinusPhase:End in the Train Cycle event and
\* the Test Cycle event has no ApplyReward.
MissingAnchorRejected ==
    /\ (reg.last.pos.kind # "tail" /\ ~reg.last.anchored) =>
          /\ ~reg.last.ok /\ reg.last.same
          /\ ~reg.last.had => reg.last.err = "no anchor"
    /\ (reg.pc = Len(AllRegs) /\ reg.extra = 0) =>
          /\ reg.funcs[<<"Train", "Cycle", "MinusPhase:End">>]
                = <<"ApplyReward", "MinusPhase:End">>
          /\ reg.funcs[<<"Test", "Cycle", "MinusPhase:End">>] = <<"MinusPhase:End">>

MissingAnchorRejectedWitness ==
    /\ reg.last.extra /\ ~reg.last.ok /\ reg.last.err = "no anchor"
    /\ reg.last.key = <<"Train", "Run", "OnEnd">>
    /\ reg.last.name = "ApplyReward" /\ reg.last.pos = Before("MinusPhase:End")
    /\ reg.funcs[<<"Train", "Run", "OnEnd">>] = <<"RunDone", "Log", "RunStats">>

StopIsResumable ==
    /\ Suspended => (loops = sc.at.loops /\ lastStarted = sc.at.started)
    /\ (TrainRunDone /\ sc.resumed /\ ~hist.everDone) =>
          hist.cycTicks = cfg.NRuns * cfg.NEpochs * cfg.NTrials * 100

StopIsResumableWitness ==
    /\ TrainRunDone /\ sc.resumed /\ ~hist.everDone
    /\ cfg.NRuns = 2 /\ cfg.NTrials = 2
    /\ hist.cycTicks = 800

RewardIsBinary ==
    /\ fix.seen # NoSeen =>
          /\ fix.seen.act \in Recalls
          /\ fix.seen.rew = (IF fix.seen.mxi = fix.seen.want THEN 1 ELSE 0)
          /\ fix.seen.ext = fix.seen.rew
    /\ \A i \in 1..Len(fix.trace) : fix.trace[i] \in {0, 1}
    /\ (fix.sched = FixedSchedule /\ fix.mock = "slot1") =>
          /\ \A i \in 1..Len(fix.trace) : fix.trace[i] = 1
          /\ Len(fix.trace) = (fix.pos - (IF fix.due THEN 1 ELSE 0)) \div 3

RewardIsBinaryWitness ==
    /\ fix.sched = FixedSchedule /\ fix.mock = "slot1"
    /\ Len(fix.trace) = 10 /\ fix.pos = 30
    /\ fix.trace[10] = 1
    /\ envs["Train"].maint1 = 3

\* C18: after Init and after every NewRun both slots of an environment are
\* empty and the first action drawn is Store1 or Store2; a Recall of slot n
\* is the current action only when slot n was stored into earlier in the same
\* Run; and a Recall of a slot nothing was stored into, whatever the network
\* answers, is given reward 0.
RecallOnlyAfterStore ==
    /\ rhist.first \in {"none", "Store1", "Store2"}
    /\ rhist.first = "none" =>
          /\ envs["Train"].maint1 = -1 /\ envs["Train"].maint2 = -1
          /\ NextActions(envs["Train"]) = {"Store1", "Store2"}
    /\ envs["Train"].act \in Recalls =>
          /\ rhist.first # "none"
          /\ SlotOf(envs["Train"].act) \in rhist.stored
    /\ \A a \in Recalls \ NextActions(envs["Train"]) :
          \A st \in 0..(NStim - 1), mxi \in 0..(NStim - 1) :
             SetReward(EnvStep(envs["Train"], a, st), mxi).rew = 0

RecallOnlyAfterStoreWitness ==
    /\ envs["Train"].act = "Recall2"
    /\ rhist.stored = {2} /\ rhist.first = "Store2"
    /\ envs["Train"].maint1 = -1 /\ envs["Train"].maint2 = 3
    /\ rhist.n = 1 /\ envs["Train"].rew = 1

UpTo(n) == [i \in 1..n |-> i - 1]
InCycle == {"body", "upd", "check"}

\* C20: a Stop that sets StopNow while RunCycles executes cycle c (between
\* ss.Cycle = c and the StopNow test that ends the cycle) lets cycle c finish
\* its update and its log, lets no cycle c+1 start, and RunCycles returns
\* with Cycle = c; a RunCycles with no Stop executes the cycles 0..NCycles-1
\* in order and returns with Cycle = NCycles-1.
StopEndsRunCycles ==
    /\ nrn.stopAt.pc \in InCycle =>
          /\ Len(nrn.started) = nrn.stopAt.cyc + 1
          /\ nrn.Cycle = nrn.stopAt.cyc
          /\ nrn.ret # -1 =>
                /\ nrn.ret = nrn.stopAt.cyc
                /\ nrn.updated = UpTo(nrn.stopAt.cyc + 1)
                /\ nrn.logged = UpTo(nrn.stopAt.cyc + 1)
    /\ (nrn.stopAt = NoStopAt /\ nrn.ret # -1) =>
          /\ nrn.started = UpTo(nrn.NCycles)
          /\ nrn.updated = UpTo(nrn.NCycles)
          /\ nrn.logged = UpTo(nrn.NCycles)
          /\ nrn.ret = nrn.NCycles - 1

StopEndsRunCyclesWitness ==
    /\ nrn.pc = "idle" /\ nrn.ret = 4
    /\ nrn.stopAt = [pc |-> "body", cyc |-> 4]
    /\ nrn.logged = <<0, 1, 2, 3, 4>>
    /\ nrn.NCycles = 10 /\ nrn.runs = 2

\* C21: the callbacks of a boundary are called in the order of the registry,
\* each after the writes of the ones before it: at the Train Run OnEnd the
\* order is RunDone, Log, RunStats, so RunStats finds the row Log wrote for
\* this run; and while the Test run TestAtInterval started at a Train Epoch
\* OnStart executes, no Trial of that epoch has started.
CallbacksInOrder ==
    /\ ord.at # -1 =>
          /\ ord.trail = SubSeq(<<"RunDone", "Log", "RunStats">>, 1, ord.idx)
          /\ ord.row = (ord.idx >= 2)
          /\ ord.statsSawRow = (ord.idx >= 3)
          /\ ord.exptInc => ord.at = cfg.NRuns - 1
    /\ (AtRunOnEnd /\ ~OrdPending) => (ord.idx = 3 /\ ord.statsSawRow)
    /\ \A i \in 1..Len(stk) :
          stk[i].pc = "test" =>
             /\ \A j \in 1..Len(stk) :
                   ~(stk[j].mode = "Train" /\ TimeOf(stk[j]) \in {"Trial", "Cycle"})
             /\ loops["Train"]["Trial"].Cur = 0
             /\ lastStarted["Train"]["Trial"] = -1
             /\ lastStarted["Train"]["Epoch"] = loops["Train"]["Epoch"].Cur

CallbacksInOrderWitness ==
    /\ AtRunOnEnd /\ ord.idx = 3
    /\ ord.trail = <<"RunDone", "Log", "RunStats">>
    /\ ord.at = 1 /\ ord.exptInc /\ ord.statsSawRow
    /\ cfg.TestInterval = 1 /\ hist.testsInRun = 2

\* The Cycle passes a Train run that began with every counter at 0 has made
\* when its counters are read as one number, Run first and Cycle last.
TrainTicksOfCounters ==
    LET L == loops["Train"]
    IN  ((L["Run"].Cur * L["Epoch"].Max + L["Epoch"].Cur) * L["Trial"].Max
            + L["Trial"].Cur) * L["Cycle"].Max + L["Cycle"].Cur

\* C22: the counters of a stack advance in lexicographic order, Run, Epoch,
\* Trial, Cycle: the Cycle passes made so far are the number the Train
\* counters spell; a coarser counter keeps the value its pass started with
\* for as long as a finer loop runs below it; the next finer counter is 0
\* when a pass of the coarser loop starts and at its maximum when the finer
\* loop has run its range.
LexicographicOrder ==
    /\ (job = "Train" /\ hist.fresh /\ ~hist.everDone) =>
          hist.cycTicks = TrainTicksOfCounters
    /\ \A i \in 1..Len(stk) :
          LET f == stk[i]
              c == Ctr(f)
              finer == loops[f.mode][Order(f.mode)[f.lev + 1]]
          IN  /\ f.pc \in {"sub", "end", "test"} =>
                    /\ lastStarted[f.mode][TimeOf(f)] = c.Cur
                    /\ 0 <= c.Cur /\ c.Cur < c.Max
              /\ ~IsLeaf(f) =>
                    /\ (f.pc \in {"top", "test"} /\ LoopCond(c)) => finer.Cur = 0
                    /\ (f.pc = "end" /\ ~(TimeOf(f) = "Run" /\ hist.doneInRun)) =>
                          finer.Cur = finer.Max

LexicographicOrderWitness ==
    /\ job = "Train" /\ hist.fresh /\ ~hist.everDone
    /\ cfg.NRuns = 2 /\ cfg.NEpochs = 3 /\ cfg.NTrials = 2
    /\ Len(stk) = 4
    /\ loops["Train"]["Run"].Cur = 1 /\ loops["Train"]["Epoch"].Cur = 2
    /\ loops["Train"]["Trial"].Cur = 1 /\ loops["Train"]["Cycle"].Cur = 37
    /\ hist.cycTicks = 1137

\* C23: the counter of a loop that is inside a pass is within 0 <= Cur < Max,
\* a pass starts only below the maximum, and after a reset (Init's
\* ResetCounters, TestAll's ResetAndRun of the Test stack) every counter
\* that was reset is 0.
CounterWithinMax ==
    /\ \A m \in Modes : \A t \in TimeSet(m) :
          0 <= loops[m][t].Cur /\ loops[m][t].Cur <= loops[m][t].Max
    /\ \A i \in 1..Len(stk) :
          /\ stk[i].pc \in {"sub", "end", "test"} =>
                (0 <= Ctr(stk[i]).Cur /\ Ctr(stk[i]).Cur < Ctr(stk[i]).Max)
          /\ (stk[i].pc = "top" /\ LoopCond(Ctr(stk[i]))) =>
                Ctr(stk[i]).Cur < Ctr(stk[i]).Max
    /\ (stk = <<>> /\ hist = HistInit) =>
          \A m \in Modes : \A t \in TimeSet(m) : loops[m][t].Cur = 0
    /\ (stk # <<>> /\ hist.snap.mode # "none" /\ lastStarted["Test"]["Epoch"] = -1) =>
          \A t \in TimeSet("Test") : loops["Test"][t].Cur = 0

CounterWithinMaxWitness ==
    /\ stk # <<>> /\ hist.snap.mode # "none" /\ lastStarted["Test"]["Epoch"] = -1
    /\ hist.testsInRun = 2
    /\ Len(stk) = 3 /\ stk[2].pc = "test"
    /\ loops["Train"]["Epoch"].Cur = 1
    /\ \A t \in TimeSet("Test") : loops["Test"][t].Cur = 0

EventTrail(m) ==
    IF m = "Train" THEN <<"ApplyReward", "MinusPhase:End">> ELSE <<"MinusPhase:End">>

\* C24: in every Train trial the ApplyReward callback is called exactly
\* once, at the MinusPhase:End event of the Cycle loop (cycle 75), with the
\* MinusPhase:End callback of the network driver called right after it and
\* nothing between them; in a Test trial the event calls no ApplyReward.
RewardOncePerTrial ==
    /\ ord.ev.key # <<>> =>
          /\ ord.ev.cyc = PlusStart
          /\ ord.ev.trail = SubSeq(EventTrail(ord.ev.key[1]), 1, ord.ev.idx)
    /\ \A i \in 1..Len(stk) :
          LET f == stk[i]
          IN  /\ (TimeOf(f) = "Trial" /\ f.pc = "end") =>
                    /\ EventDone(f.mode)
                    /\ ord.ev.rewards = (IF f.mode = "Train" THEN 1 ELSE 0)
              /\ (IsLeaf(f) /\ Ctr(f).Cur > PlusStart) => EventDone(f.mode)
              /\ (IsLeaf(f) /\ Ctr(f).Cur < PlusStart) => ord.ev.key # TrialKey(f.mode)

RewardOncePerTrialWitness ==
    /\ Len(stk) = 3 /\ Top.mode = "Train" /\ TimeOf(Top) = "Trial" /\ Top.pc = "end"
    /\ loops["Train"]["Epoch"].Cur = 1 /\ loops["Train"]["Trial"].Cur = 1
    /\ ord.ev.rewards = 1
    /\ ord.ev.trail = <<"ApplyReward", "MinusPhase:End">>
    /\ hist.testsInRun = 2

\* The positions of the call c in the calls of the last ApplyReward.
CallsOf(c) == {i \in 1..Len(rhist.calls) : rhist.calls[i] = c}

\* C25: an ApplyReward call on a Recall trial writes the reward pattern to
\* the Rew layer and then applies one multiplier, the CalcEntropy result of
\* the call, to MatrixGo, MatrixNoGo and RWPred, each once and none
\* skipped; the learning rate of no other layer is adjusted.
OneMultiplierForAll ==
    (rhist.n = 1 /\ rhist.act \in Recalls) =>
        /\ rhist.ent \in EntMin..EntMax
        /\ \A l \in LrateLayers :
              /\ net.lmult[l] = rhist.ent
              /\ Cardinality(CallsOf(l \o ".LrateMult")) = 1
              /\ \A i \in CallsOf(l \o ".LrateMult"), j \in CallsOf("Rew.ApplyExt") : j < i
        /\ Cardinality(CallsOf("Rew.ApplyExt")) = 1
        /\ net.Rew = envs["Train"].rew
        /\ \A l \in NetLayers \ LrateLayers :
              /\ net.lmult[l] = EntOff
              /\ CallsOf(l \o ".LrateMult") = {}

OneMultiplierForAllWitness ==
    /\ rhist.n = 1 /\ rhist.act = "Recall2"
    /\ rhist.ent = EntMin
    /\ \A l \in LrateLayers : net.lmult[l] = EntMin
    /\ net.lmult["Hidden"] = EntOff
    /\ net.Rew = RewVal

\* C26: with the sum-of-activations measure (ModLearnRate and
\* EntropyMeasureType on), CalcEntropy returns 4.0 when the largest Hidden
\* activation is below 0.02, whatever the sum; otherwise it returns the sum
\* of the Hidden activations / 10, raised to 0.25 or lowered to 4.0 when it
\* is outside that range.
LowActivationForcesMax ==
    (ent # -1 /\ flags.ModLearnRate /\ flags.EntropyMeasureType) =>
        LET h == avgM["Hidden"]
            low == \A u \in Units : h[u] < LowAct
        IN  /\ low => ent = EntMax
            /\ (~low /\ Sum(h) < EntMin) => ent = EntMin
            /\ (~low /\ Sum(h) > EntMax) => ent = EntMax
            /\ (~low /\ Sum(h) >= EntMin /\ Sum(h) <= EntMax) => ent = Sum(h)

LowActivationForcesMaxWitness ==
    /\ flags.ModLearnRate /\ flags.EntropyMeasureType
    /\ avgM["Hidden"][1] = 1
    /\ \A u \in Units : avgM["Hidden"][u] < LowAct
    /\ Sum(avgM["Hidden"]) < EntMin
    /\ ent = EntMax

\* C27: the NZero stat the NZeroStop predicate reads is initialised by
\* NewRun at the Run OnStart of the Run that evaluates it: at every
\* evaluation NewRun has run in the same Run, and the value read counts only
\* epochs of that Run, so the first evaluation of a Run reads 0 or 1.
StatInitialisedBeforeIsDone ==
    /\ hist.eval # NoEval =>
          /\ hist.eval.init = hist.eval.run
          /\ hist.eval.seen <= hist.eval.epoch + 1
    /\ \A i \in 1..Len(stk) :
          (stk[i].mode = "Train" /\ TimeOf(stk[i]) = "Epoch") =>
              /\ hist.initRun = loops["Train"]["Run"].Cur
              /\ stats.NZero <= loops["Train"]["Epoch"].Cur

StatInitialisedBeforeIsDoneWitness ==
    /\ hist.eval.run = 1 /\ hist.eval.epoch = 0
    /\ hist.eval.init = 1
    /\ hist.eval.seen = 1
    /\ hist.everDone
    /\ cfg.NZero = 1

\* C28: the execution with a net view attached and the execution without
\* one hold the same counter stats at every step (the NetViewCounters
\* callback changes only the view text).
ViewLeavesStatsAlone == gui["view"].Stats = gui["noView"].Stats

NoCarryOverToNextRun ==
    \A i \in 1..Len(stk) :
        (stk[i].mode = "Train" /\ TimeOf(stk[i]) = "Epoch") =>
            /\ Exiting(stk[i]) => loops["Train"]["Epoch"].Cur >= 1
            /\ (stk[i].pc = "top" /\ lastStarted["Train"]["Epoch"] = -1) =>
                  /\ loops["Train"]["Epoch"].Cur = 0
                  /\ stats.NZero = 0
                  /\ ctx.steps = [m \in Modes |-> 0]
                  /\ ~hist.doneInRun

NoCarryOverToNextRunWitness ==
    /\ Len(stk) = 2 /\ Top.mode = "Train" /\ TimeOf(Top) = "Epoch"
    /\ Top.pc = "top" /\ lastStarted["Train"]["Epoch"] = -1
    /\ loops["Train"]["Run"].Cur = 1
    /\ hist.everDone /\ hist.epochEnds = 1 /\ cfg.NEpochs = MaxEpochs
    /\ stats.NZero = 0 /\ ctx.steps["Train"] = 0

\* C31: from the first trial of a Test run to its return nothing of the
\* reward step happens: no ApplyReward callback is called in a Test trial,
\* the Rew input, the learning-rate multipliers and the learning-rate stats
\* are what they were when the Test run began, and the reward of neither
\* environment is set.
NoRewardInTestRun ==
    /\ (ord.ev.key # <<>> /\ ord.ev.key[1] = "Test") => ord.ev.rewards = 0
    /\ (\E i \in 1..Len(stk) : stk[i].mode = "Test") =>
          /\ (Top.mode = "Test" /\ ord.drawn = TrialKey("Test")) => rhist.n = 0
          /\ ord.tst.key = TestKey =>
                /\ net = ord.tst.net
                /\ lstats = ord.tst.lstats
                /\ envs["Train"].rew = ord.tst.rew
                /\ envs["Test"].rew = EnvInit.rew

NoRewardInTestRunWitness ==
    /\ Len(stk) = 5 /\ Top.mode = "Test" /\ IsLeaf(Top)
    /\ Ctr(Top).Cur > PlusStart
    /\ loops["Train"]["Epoch"].Cur = 1
    /\ ord.tst.key = TestKey
    /\ envs["Train"].rew = RewVal
    /\ net.lmult["RWPred"] = EntMax
    /\ envs["Test"].act = "Recall1"
    /\ ord.ev.trail = <<"MinusPhase:End">>

\* ------------------------------------- SpikeVsRate and the toolbar buttons

\* Sim.Defaults and Sim.Init on the fields kept here.
NrnDefaults(n) ==
    [n EXCEPT !.UpdateInterval = DefUpdateInterval, !.Cycle = 0,
              !.NCycles = DefNCycles, !.OnCycle = DefOnCycle,
              !.OffCycle = DefOffCycle]

NrnSimInit(n) == [n EXCEPT !.Cycle = 0, !.StopNow = FALSE]

\* The record of the last RunCycles call dropped.
NoRecord(n) ==
    [n EXCEPT !.started = <<>>, !.updated = <<>>, !.logged = <<>>,
              !.viewed = <<>>, !.stopAt = NoStopAt, !.ret = -1, !.on = <<>>]

\* A run going on: the RunCycles of the button, or the goroutine.
ButtonRun == nrn.pc # "idle" /\ nrn.caller = "button"
SvrRun == nrn.svr.pc # "none"

InitSvr ==
    /\ SchedInit(Scenario)
    /\ EntInit
    /\ RewInit
    /\ reg = RegAfterConfig /\ sc = StopInit /\ nest = NestInit /\ fix = FixInit /\ prm = PrmInit
    /\ ObsInit
    /\ \E n \in {MinCycles, ActRow + 1} :
          nrn = [NrnInit EXCEPT !.NCycles = n, !.UpdateInterval = DefUpdateInterval]

\* The Stop button, enabled by s.SetEnabled(ss.IsRunning).  The handler of
\* Run cycles runs RunCycles on the GUI thread, which takes no other click
\* until it returns; SpikeVsRate runs in a goroutine of its own.
StopButton ==
    /\ EnabledRunning(nrn.IsRunning)
    /\ ~ButtonRun
    /\ ~nrn.StopNow
    /\ nrn' = [nrn EXCEPT !.StopNow = TRUE,
                          !.svr.stopped = @ \/ SvrRun]
    /\ UNCHANGED NrnRest

\* The Init button.
InitButton ==
    /\ EnabledIdle(nrn.IsRunning)
    /\ nrn' = [NoRecord(NrnSimInit(nrn)) EXCEPT !.during = @ \/ SvrRun \/ ButtonRun]
    /\ UNCHANGED NrnRest

\* The Defaults button: Defaults, Init.
DefaultsButton ==
    /\ EnabledIdle(nrn.IsRunning)
    /\ nrn' = [NoRecord(NrnSimInit(NrnDefaults(nrn))) EXCEPT !.during = @ \/ SvrRun \/ ButtonRun]
    /\ UNCHANGED NrnRest

\* The Reset plot button.
ResetPlotButton ==
    /\ EnabledIdle(nrn.IsRunning)
    /\ nrn' = [NoRecord(nrn) EXCEPT !.log = ResetTstCycPlot(@),
                          !.during = @ \/ SvrRun \/ ButtonRun]
    /\ UNCHANGED NrnRest

\* The Spike vs Rate button: IsRunning = true, go func() { SpikeVsRate() ... }.
SvrStart ==
    /\ EnabledIdle(nrn.IsRunning)
    /\ nrn.svr.pc = "none"
    /\ nrn.runs < MaxNrnRuns
    /\ nrn' = [NoRecord(nrn) EXCEPT !.IsRunning = TRUE, !.runs = @ + 1,
                          !.both = @ \/ ButtonRun,
                          !.svr = [SvrInit EXCEPT !.pc = "outer"]]
    /\ UNCHANGED NrnRest

\* for gbarE := 0.1; gbarE <= 0.7; gbarE += 0.025 { ... ss.Spike = true
SvrOuter ==
    /\ nrn.svr.pc = "outer"
    /\ nrn' = IF nrn.svr.step < MaxSteps
              THEN [nrn EXCEPT !.svr.ns = 0, !.svr.pc = "spikeLoop"]
              ELSE [nrn EXCEPT !.svr.pc = "finish"]
    /\ UNCHANGED NrnRest

\* ss.RunCycles() called by SpikeVsRate, to come back at the pc ret.
SvrCall(ret) ==
    [NoRecord(nrn) EXCEPT !.pc = "init", !.caller = "svr",
                          !.svr.pc = "call", !.svr.ret = ret,
                          !.svr.begunAfter = nrn.svr.stopped]

\* for ns := 0; ns < nsamp; ns++ { ss.RunCycles() of the two sample loops;
\* after the first, rate := 0 and ss.Spike = false.
SvrLoop ==
    /\ nrn.svr.pc \in {"spikeLoop", "rateLoop"}
    /\ nrn.pc = "idle"
    /\ nrn' = IF nrn.svr.ns < MaxSamp
              THEN SvrCall(IF nrn.svr.pc = "spikeLoop" THEN "spikeChk" ELSE "rateChk")
              ELSE IF nrn.svr.pc = "spikeLoop"
                   THEN [nrn EXCEPT !.svr.ns = 0, !.svr.pc = "rateLoop"]
                   ELSE [nrn EXCEPT !.svr.pc = "outerChk"]
    /\ UNCHANGED NrnRest

\* TstCycLog.CellFloat("Act", 159): the row read, whether it exists and the
\* call that wrote it.
CellFloat(dt, row) == [exists |-> row < dt.Rows, fresh |-> dt.fresh, n |-> 1]

\* if ss.StopNow { break }; act := ss.TstCycLog.CellFloat("Act", 159) of the
\* two sample loops.  A row that is not in the table stops the program or
\* gives some value.
SvrCheck ==
    /\ nrn.svr.pc \in {"spikeChk", "rateChk"}
    /\ IF nrn.StopNow
       THEN nrn' = [nrn EXCEPT !.svr.observed = TRUE,
                               !.svr.ns = 0,
                               !.svr.pc = IF nrn.svr.pc = "spikeChk"
                                          THEN "rateLoop" ELSE "outerChk"]
       ELSE LET rd == CellFloat(nrn.log, ActRow)
                go == IF nrn.svr.pc = "spikeChk" THEN "spikeLoop" ELSE "rateLoop"
            IN \/ nrn' = [nrn EXCEPT !.svr.read = rd, !.svr.ns = @ + 1,
                                      !.svr.pc = go]
               \/ /\ ~rd.exists
                  /\ nrn' = [nrn EXCEPT !.svr.read = rd, !.svr.pc = "panic"]
    /\ UNCHANGED NrnRest

\* if ss.StopNow { break }; LogSpikeVsRate(...); row++ of the outer loop.
SvrOuterCheck ==
    /\ nrn.svr.pc = "outerChk"
    /\ nrn' = IF nrn.StopNow
              THEN [nrn EXCEPT !.svr.observed = TRUE, !.svr.pc = "finish"]
              ELSE [nrn EXCEPT !.svr.row = @ + 1, !.svr.step = @ + 1,
                               !.svr.logged = @ \/ nrn.svr.stopped,
                               !.svr.pc = "outer"]
    /\ UNCHANGED NrnRest

\* ss.Defaults() and the plot update at the end of SpikeVsRate.
SvrFinish ==
    /\ nrn.svr.pc = "finish"
    /\ nrn' = [NrnDefaults(nrn) EXCEPT !.svr.pc = "returned"]
    /\ UNCHANGED NrnRest

\* ss.IsRunning = false, the last statement of the goroutine.
SvrEnd ==
    /\ nrn.svr.pc = "returned"
    /\ nrn' = [NoRecord(nrn) EXCEPT !.IsRunning = FALSE, !.svr = SvrInit]
    /\ UNCHANGED NrnRest

NextSvr ==
    \/ RunCyclesStart
    \/ RunCyclesInit
    \/ RunCyclesLoop
    \/ RunCyclesUpdate
    \/ RunCyclesLog
    \/ RunCyclesCheck
    \/ RunCyclesReturn
    \/ StopButton
    \/ InitButton
    \/ DefaultsButton
    \/ ResetPlotButton
    \/ SvrStart
    \/ SvrOuter
    \/ SvrLoop
    \/ SvrCheck
    \/ SvrOuterCheck
    \/ SvrFinish
    \/ SvrEnd

SpecSvr == InitSvr /\ [][NextSvr]_vars

\* C35: a Stop pressed while SpikeVsRate runs ends it with no further
\* RunCycles call completed and no further row logged, and is not cleared
\* before SpikeVsRate has seen it.
StopEndsSpikeVsRate ==
    nrn.svr.stopped =>
        /\ ~nrn.svr.again
        /\ ~nrn.svr.logged
        /\ ~nrn.svr.cleared

\* C37: with the buttons firing only while enabled, the RunCycles of the
\* Run cycles button and the SpikeVsRate goroutine never run at the same
\* time, Init, Defaults and Reset plot never run during a run, IsRunning is
\* true all through a run, and the step that ends a run leaves IsRunning
\* false, which it is whenever no run is going on.
OneRunAtATime ==
    /\ [](~nrn.both /\ ~(ButtonRun /\ SvrRun))
    /\ [](~nrn.during)
    /\ [](nrn.IsRunning <=> (ButtonRun \/ SvrRun))
    /\ [][((ButtonRun /\ ~ButtonRun') \/ (SvrRun /\ ~SvrRun')) => ~nrn.IsRunning']_vars

OneRunAtATimeWitness ==
    /\ nrn.runs = MaxNrnRuns
    /\ nrn.svr.pc = "returned"
    /\ nrn.svr.stopped /\ nrn.svr.cleared
    /\ nrn.IsRunning
    /\ nrn.log.Rows = MinCycles

\* C38: the row 159 that SpikeVsRate reads after a RunCycles call is in the
\* table and was written by that call.
ActRowWrittenByCall ==
    nrn.svr.read.n > 0 => (nrn.svr.read.exists /\ nrn.svr.read.fresh)

\* --------------------------------------- the input window of RunCycles

\* RunCycles with every OnCycle and OffCycle in 0..NCycles-1.
InitOn ==
    /\ SchedInit(Scenario)
    /\ EntInit
    /\ RewInit
    /\ reg = RegAfterConfig /\ sc = StopInit /\ nest = NestInit /\ fix = FixInit /\ prm = PrmInit
    /\ ObsInit
    /\ \E n \in NCyclesVals :
          \E a \in 0..(n - 1), b \in 0..(n - 1) :
              nrn = [NrnInit EXCEPT !.NCycles = n, !.OnCycle = a, !.OffCycle = b]

SpecOn == InitOn /\ [][NextNrn]_vars

\* C36: the input is on at the cycle c of RunCycles if and only if
\* OnCycle <= c < OffCycle.
InputOnInWindow ==
    \A i \in 1..Len(nrn.on) :
        nrn.on[i] <=> (nrn.OnCycle <= i - 1 /\ i - 1 < nrn.OffCycle)

\* ------------------------------------------- the priming sim's pattern sets

InitPrm ==
    /\ SchedInit(Scenario)
    /\ EntInit
    /\ RewInit
    /\ reg = RegAfterConfig /\ sc = StopInit /\ nest = NestInit /\ fix = FixInit
    /\ nrn = NrnInit
    /\ ObsInit
    /\ \E rows \in [PrmTables -> 1..MaxRows] : prm = PrmAfterConfig(rows)

PrmRest == <<schedVars, entVars, rewVars, reg, sc, nest, nrn, fix, obsVars>>

\* The Set inputs button, active always.
SetEnvCall ==
    /\ \E t \in EnvTypes : prm' = SetEnv(prm, t)
    /\ UNCHANGED PrmRest

\* The Init button.
PrimingInitCall ==
    /\ prm' = PrimingInit(prm)
    /\ UNCHANGED PrmRest

\* One trial of the epoch of a stack: ApplyInputs steps the environment of
\* the mode, and the Trial counter goes up.
PrimingTrial ==
    /\ \E m \in Modes :
          /\ prm.Cur[m] < prm.Max[m]
          /\ LET e == FixedTableStep(prm.Envs[m], prm.rows)
             IN prm' = [prm EXCEPT !.Envs[m] = e,
                                   !.Cur[m] = @ + 1,
                                   !.shown[m] = Append(@, e.Trial),
                                   !.last = "Trial"]
    /\ UNCHANGED PrmRest

\* The end of the epoch of a stack; the next Test epoch is one of TestAll,
\* which starts with Init(0) of the Test environment.
PrimingEpochEnd ==
    /\ \E m \in Modes :
          /\ prm.Cur[m] = prm.Max[m]
          /\ prm' = [prm EXCEPT
                        !.Cur[m] = 0,
                        !.shown[m] = <<>>,
                        !.Envs[m] = IF m = "Test" THEN FixedTableInit(@) ELSE @,
                        !.last = "Epoch"]
    /\ UNCHANGED PrmRest

NextPrm == SetEnvCall \/ PrimingInitCall \/ PrimingTrial \/ PrimingEpochEnd

SpecPrm == InitPrm /\ [][NextPrm]_vars

\* C33: after SetEnv(t) followed by Init, the environment t is about still
\* uses the table t selects, as the EnvType field says.
SetEnvSurvivesInit ==
    (prm.setEnv /\ prm.last = "Init") =>
        prm.Envs[EnvOfType(prm.EnvType)].Table = TableOfType(prm.EnvType)

\* C34: the Max of the Trial loop of each stack is the number of rows of
\* the table its environment uses, so that a whole epoch shows every row of
\* the table once.
TrialMaxIsTableRows ==
    \A m \in Modes :
        /\ prm.Max[m] = prm.rows[prm.Envs[m].Table]
        /\ prm.Cur[m] = prm.Max[m] =>
              \A r \in 0..(prm.rows[prm.Envs[m].Table] - 1) :
                  Cardinality({i \in 1..Len(prm.shown[m]) : prm.shown[m][i] = r}) = 1

\* C32: the Expt stat is incremented once per complete Train execution of
\* NRuns runs, at the OnEnd of the run NRuns - 1 and of no earlier run,
\* with or without Test runs in between, and with or without a net view.
ExptOncePerExecution ==
    \A v \in DOMAIN hist.expt :
        /\ Len(hist.expt[v]) <= 1
        /\ \A i \in 1..Len(hist.expt[v]) : hist.expt[v][i] = cfg.NRuns - 1
        /\ (job = "Train" /\ loops["Train"]["Run"].Cur < cfg.NRuns) =>
              hist.expt[v] = <<>>
        /\ TrainRunDone => hist.expt[v] = <<cfg.NRuns - 1>>

ExptOncePerExecutionWitness ==
    /\ TrainRunDone
    /\ cfg.NRuns = MaxRuns /\ cfg.TestInterval = 1
    /\ hist.testsInRun > 0
    /\ hist.expt["noView"] = <<MaxRuns - 1>>

====
